---- MODULE Spec2Model ----
(***************************************************************************)
(* Next-best-action ranking engine (tool_ranker.py) and the confidence-    *)
(* tiered dialogue policy (agent.py) over the per-session context          *)
(* (context_manager.py).                                                   *)
(*                                                                         *)
(* Numbers: a confidence is held in thousandths (0.45 is 450), a match     *)
(* score in tenths (60 is 600; get_matches rounds its average to one       *)
(* decimal), a completion score as the integer 0..100 it is.               *)
(* Python's None is the string "None"; a list is a sequence; a list that   *)
(* the code only tests for emptiness and membership is a set.              *)
(***************************************************************************)
EXTENDS Integers, Sequences, FiniteSets, TLC

VARIABLES
    default_ranking,    \* the list object DEFAULT_TOOL_RANKING / ToolRanker.default_ranking
    _ranker_instance,   \* tool_ranker._ranker_instance: "None" or "ToolRanker"
    r_args,             \* ranking harness: the arguments of the observed rank_tools call
    r_result,           \* ranking harness: its latest result, <<>> before the first call
    r_prev,             \* ranking harness: the result of the call before, with the same arguments
    r_calls,            \* ranking harness: calls made on the singleton so far
    r_mode,             \* ranking harness: the response mode selected for r_args.confidence
    fallback_turn,      \* classifier harnesses: a text (the user's, or the LLM reply), its classification and mode
    context,            \* the session's AgentContext
    response,           \* what the agent's latest call returned to the session
    active_contexts,    \* ContextManager.active_contexts: user id -> AgentContext object
    user_session,       \* chainlit's cl.user_session of every chat session
    agent_contexts,     \* the AgentContext objects made so far, by object reference
    registry_call,      \* registry harness: the latest ContextManager call and what it returned
    analysis            \* analyzer harness: a profile_analyzer call and what it returned

vars == <<default_ranking, _ranker_instance, r_args, r_result, r_prev, r_calls, r_mode,
          fallback_turn, context, response, active_contexts, user_session, agent_contexts,
          registry_call, analysis>>

None == "None"

\* ------------------------------------------------------------------ bounds
MaxScores == 3      \* longest last_match_scores list handed to rank_tools
MaxCalls == 3       \* calls on the singleton ranker in one behaviour
MaxMatches == 3     \* get_matches executions recorded in one session
MaxHits == 3        \* keywords of one tool in an LLM reply
MaxWords == 2       \* fallback keywords occurring in one user text

\* ------------------------------------------------------- tool_ranker.py
DEFAULT_TOOL_RANKING ==
    <<"get_matches", "profile_analyzer", "infer_skills", "update_profile",
      "ask_jd_qa", "draft_email">>

Tools == {DEFAULT_TOOL_RANKING[i] : i \in DOMAIN DEFAULT_TOOL_RANKING}

Range(s) == {s[i] : i \in DOMAIN s}

RECURSIVE SumSeq(_)
SumSeq(s) == IF s = <<>> THEN 0 ELSE s[1] + SumSeq(Tail(s))

\* scores[-3:]
LastThree(scores) ==
    IF Len(scores) <= 3 THEN scores ELSE SubSeq(scores, Len(scores) - 2, Len(scores))

\* Variant: one low entry is enough
_has_low_match_scores_Single(scores) ==
    IF Len(scores) = 0 THEN FALSE
    ELSE LET recent_scores == LastThree(scores)
         IN  Len(recent_scores) >= 1 /\ SumSeq(recent_scores) < 600 * Len(recent_scores)

\* sum(recent) / len(recent) < 60, in tenths and without the division
_has_low_match_scores(scores) ==
    IF Len(scores) = 0 THEN FALSE
    ELSE LET recent_scores == LastThree(scores)
         IN  Len(recent_scores) >= 2 /\ SumSeq(recent_scores) < 600 * Len(recent_scores)

\* "for tool in self.default_ranking: if tool not in ranking: ranking.append(tool)"
RECURSIVE AddRemaining(_, _)
AddRemaining(ranking, rest) ==
    IF rest = <<>> THEN ranking
    ELSE AddRemaining(IF Head(rest) \in Range(ranking) THEN ranking
                      ELSE Append(ranking, Head(rest)),
                      Tail(rest))

_get_profile_improvement_ranking(missing_sections, dr) ==
    AddRemaining(
        IF missing_sections # {}
        THEN IF "skills" \in missing_sections
             THEN <<"profile_analyzer", "infer_skills", "update_profile">>
             ELSE <<"profile_analyzer", "update_profile", "infer_skills">>
        ELSE <<"profile_analyzer", "infer_skills", "update_profile">>,
        dr)

_get_low_match_ranking(missing_sections, dr) ==
    AddRemaining(
        IF missing_sections # {} /\ "skills" \in missing_sections
        THEN <<"profile_analyzer", "infer_skills", "update_profile">>
        ELSE <<"profile_analyzer", "infer_skills", "get_matches">>,
        dr)

\* Variant: the post-match list starts with get_matches
_get_post_match_ranking_MatchesFirst(dr) ==
    AddRemaining(<<"get_matches", "ask_jd_qa", "draft_email">>, dr)

_get_post_match_ranking(dr) ==
    AddRemaining(<<"ask_jd_qa", "draft_email", "get_matches">>, dr)

_get_profile_focus_ranking(missing_sections, dr) ==
    AddRemaining(
        IF missing_sections # {} /\ "skills" \in missing_sections
        THEN <<"profile_analyzer", "infer_skills", "update_profile">>
        ELSE <<"profile_analyzer", "get_matches", "infer_skills">>,
        dr)

\* Variant: profile_analyzer is followed by the same pair whatever is missing
_get_intent_based_ranking_NoSkills(primary_tool, completion_score, missing_sections, dr) ==
    AddRemaining(
        <<primary_tool>> \o
        (CASE primary_tool = "get_matches" -> <<"ask_jd_qa", "draft_email">>
           [] primary_tool = "profile_analyzer" -> <<"update_profile", "get_matches">>
           [] primary_tool = "infer_skills" -> <<"update_profile", "profile_analyzer">>
           [] primary_tool = "update_profile" -> <<"profile_analyzer", "get_matches">>
           [] primary_tool = "ask_jd_qa" -> <<"draft_email", "get_matches">>
           [] primary_tool = "draft_email" -> <<"ask_jd_qa", "get_matches">>
           [] OTHER -> <<>>),
        dr)

_get_intent_based_ranking(primary_tool, completion_score, missing_sections, dr) ==
    AddRemaining(
        <<primary_tool>> \o
        (CASE primary_tool = "get_matches" -> <<"ask_jd_qa", "draft_email">>
           [] primary_tool = "profile_analyzer" ->
                IF missing_sections # {} /\ "skills" \in missing_sections
                THEN <<"infer_skills", "update_profile">>
                ELSE <<"update_profile", "get_matches">>
           [] primary_tool = "infer_skills" -> <<"update_profile", "profile_analyzer">>
           [] primary_tool = "update_profile" -> <<"profile_analyzer", "get_matches">>
           [] primary_tool = "ask_jd_qa" -> <<"draft_email", "get_matches">>
           [] primary_tool = "draft_email" -> <<"ask_jd_qa", "get_matches">>
           [] OTHER -> <<>>),
        dr)

\* DefaultBranch without the copy: ranked_tools is default_ranking itself
DefaultBranch_NoCopy(dr) == [list |-> dr, shared |-> TRUE]

\* The else branch of the strategy: "self.default_ranking.copy()". A list is a
\* record of its elements and of whether it is the default_ranking object itself
\* (shared) or a fresh list.
DefaultBranch(dr) == [list |-> dr, shared |-> FALSE]

\* Variant: the strong-intent rule is tried before the just-showed-matches rule
RankedTools_IntentFirst(a, dr) ==
    LET has_profile_issues == a.completion_score < 80 \/ a.missing_sections # {}
        low_match_scores == _has_low_match_scores(a.last_match_scores)
        just_showed_matches == a.recent_action = "get_matches"
        fresh(l) == [list |-> l, shared |-> FALSE]
    IN  IF a.completion_score < 50
        THEN fresh(_get_profile_improvement_ranking(a.missing_sections, dr))
        ELSE IF low_match_scores
        THEN fresh(_get_low_match_ranking(a.missing_sections, dr))
        ELSE IF a.primary_tool # None /\ a.confidence >= 750
        THEN fresh(_get_intent_based_ranking(a.primary_tool, a.completion_score,
                                            a.missing_sections, dr))
        ELSE IF just_showed_matches
        THEN fresh(_get_post_match_ranking(dr))
        ELSE IF has_profile_issues /\ a.confidence < 750
        THEN fresh(_get_profile_focus_ranking(a.missing_sections, dr))
        ELSE DefaultBranch(dr)

\* Lines 53-82: the strategy chosen from the context, first matching branch.
RankedTools(a, dr) ==
    LET has_profile_issues == a.completion_score < 80 \/ a.missing_sections # {}
        low_match_scores == _has_low_match_scores(a.last_match_scores)
        just_showed_matches == a.recent_action = "get_matches"
        fresh(l) == [list |-> l, shared |-> FALSE]
    IN  IF a.completion_score < 50
        THEN fresh(_get_profile_improvement_ranking(a.missing_sections, dr))
        ELSE IF low_match_scores
        THEN fresh(_get_low_match_ranking(a.missing_sections, dr))
        ELSE IF just_showed_matches
        THEN fresh(_get_post_match_ranking(dr))
        ELSE IF has_profile_issues /\ a.confidence < 750
        THEN fresh(_get_profile_focus_ranking(a.missing_sections, dr))
        ELSE IF a.primary_tool # None /\ a.confidence >= 750
        THEN fresh(_get_intent_based_ranking(a.primary_tool, a.completion_score,
                                            a.missing_sections, dr))
        ELSE DefaultBranch(dr)

\* list.remove(x): drops the first occurrence of x
RECURSIVE RemoveFirst(_, _)
RemoveFirst(s, x) ==
    IF s = <<>> THEN <<>>
    ELSE IF Head(s) = x THEN Tail(s)
    ELSE <<Head(s)>> \o RemoveFirst(Tail(s), x)

\* PrimaryFirst with the strong-intent threshold in place of 0.45
PrimaryFirst_Strong(a, ranked_tools) ==
    IF a.primary_tool # None /\ a.confidence >= 750 /\ a.primary_tool \in Range(ranked_tools)
    THEN <<a.primary_tool>> \o RemoveFirst(ranked_tools, a.primary_tool)
    ELSE ranked_tools

\* Variant: the primary tool changes places with the head of the list
PrimaryFirst_Swap(a, ranked_tools) ==
    IF a.primary_tool # None /\ a.confidence >= 450 /\ a.primary_tool \in Range(ranked_tools)
    THEN [i \in DOMAIN ranked_tools |->
             IF i = 1 THEN a.primary_tool
             ELSE IF ranked_tools[i] = a.primary_tool THEN ranked_tools[1]
             ELSE ranked_tools[i]]
    ELSE ranked_tools

\* Lines 84-87: the primary tool goes first when given with confidence >= 0.45
PrimaryFirst(a, ranked_tools) ==
    IF a.primary_tool # None /\ a.confidence >= 450 /\ a.primary_tool \in Range(ranked_tools)
    THEN <<a.primary_tool>> \o RemoveFirst(ranked_tools, a.primary_tool)
    ELSE ranked_tools

\* Lines 89-95: duplicates removed, first occurrences kept
RECURSIVE UniqueTools(_, _)
UniqueTools(ranked_tools, unique_tools) ==
    IF ranked_tools = <<>> THEN unique_tools
    ELSE UniqueTools(Tail(ranked_tools),
                     IF Head(ranked_tools) \in Range(unique_tools) THEN unique_tools
                     ELSE Append(unique_tools, Head(ranked_tools)))

\* TopThree without the slice
TopThree_NoSlice(unique_tools) == unique_tools

\* unique_tools[:3]
TopThree(unique_tools) ==
    SubSeq(unique_tools, 1, IF Len(unique_tools) < 3 THEN Len(unique_tools) ELSE 3)

\* ToolRanker.rank_tools on the ranker whose default_ranking is dr: the list it
\* returns, and default_ranking after the call (remove/insert act in place, so
\* they reach default_ranking exactly when ranked_tools is that same object).
rank_tools(a, dr) ==
    LET chosen == RankedTools(a, dr)
        moved == PrimaryFirst(a, chosen.list)
    IN  [result |-> TopThree(UniqueTools(moved, <<>>)),
         default_ranking |-> IF chosen.shared THEN moved ELSE dr]

should_show_clarifying_questions(confidence) == 450 <= confidence /\ confidence < 750

should_use_fallback(confidence) == confidence < 450

\* --------------------------------------------------------------- agent.py
\* ResponseMode with the lower threshold taken inclusively
ResponseMode_Inclusive(confidence) ==
    IF confidence <= 450 THEN "fallback"
    ELSE IF 450 <= confidence /\ confidence < 750 THEN "clarify"
    ELSE "recommend"

\* process_user_input, lines 131-150: the response strategy for a confidence
ResponseMode(confidence) ==
    IF confidence < 450 THEN "fallback"
    ELSE IF 450 <= confidence /\ confidence < 750 THEN "clarify"
    ELSE "recommend"


\* LLM reply text, lowercased: the set of tool keywords that occur in it
tool_keywords ==
    [get_matches |-> <<"match", "job", "find", "search", "opportunity", "role", "position">>,
     profile_analyzer |-> <<"analyze", "profile", "complete", "check", "score", "missing">>,
     infer_skills |-> <<"skill", "suggest", "infer", "recommend skill", "add skill">>,
     update_profile |-> <<"update", "change", "modify", "edit", "add to profile">>,
     ask_jd_qa |-> <<"ask about", "question about", "tell me about", "job posting", "jd">>,
     draft_email |-> <<"email", "message", "write", "draft", "contact", "reach out">>]

\* The order in which the tool_keywords dict is iterated
KeywordTools ==
    <<"get_matches", "profile_analyzer", "infer_skills", "update_profile",
      "ask_jd_qa", "draft_email">>

\* A keyword that occurs in a text brings the keywords that are substrings of it
Substrings(keyword) ==
    CASE keyword = "recommend skill" -> {"skill"}
      [] keyword = "add skill" -> {"skill"}
      [] keyword = "job posting" -> {"job"}
      [] keyword = "add to profile" -> {"profile"}
      [] OTHER -> {}

Occurring(words) == words \cup UNION {Substrings(w) : w \in words}

Min(x, y) == IF x < y THEN x ELSE y

\* max(tool_scores, key=tool_scores.get): the first tool, in dict order, of the top score
RECURSIVE FirstMax(_, _, _)
FirstMax(tool_scores, order, best) ==
    IF order = <<>> THEN best
    ELSE FirstMax(tool_scores, Tail(order),
                  IF tool_scores[Head(order)] > tool_scores[best] THEN Head(order) ELSE best)

\* Variant: the confidence is not capped at 0.95
_parse_intent_response_Uncapped(response_text) ==
    LET response_lower == Occurring(response_text)
        tool_scores == [t \in Tools |-> Cardinality(Range(tool_keywords[t]) \cap response_lower)]
        primary_tool == FirstMax(tool_scores, Tail(KeywordTools), Head(KeywordTools))
        max_score == tool_scores[primary_tool]
    IN  [primary_tool |-> primary_tool, confidence |-> 400 + max_score * 150]

_parse_intent_response(response_text) ==
    LET response_lower == Occurring(response_text)
        tool_scores == [t \in Tools |-> Cardinality(Range(tool_keywords[t]) \cap response_lower)]
        primary_tool == FirstMax(tool_scores, Tail(KeywordTools), Head(KeywordTools))
        max_score == tool_scores[primary_tool]
    IN  [primary_tool |-> primary_tool, confidence |-> Min(950, 400 + max_score * 150)]

\* any(word in user_lower for word in words)
AnyWord(user_lower, words) == words \cap user_lower # {}

\* Variant: a matched job keyword is a strong intent
_fallback_intent_detection_Strong(user_input) ==
    LET user_lower == user_input
    IN  IF AnyWord(user_lower, {"job", "match", "find", "search", "opportunity"})
        THEN [primary_tool |-> "get_matches", confidence |-> 750]
        ELSE IF AnyWord(user_lower, {"profile", "analyze", "check", "complete"})
        THEN [primary_tool |-> "profile_analyzer", confidence |-> 650]
        ELSE IF AnyWord(user_lower, {"skill", "suggest", "recommend"})
        THEN [primary_tool |-> "infer_skills", confidence |-> 600]
        ELSE IF AnyWord(user_lower, {"update", "change", "edit"})
        THEN [primary_tool |-> "update_profile", confidence |-> 600]
        ELSE IF AnyWord(user_lower, {"email", "message", "draft", "write"})
        THEN [primary_tool |-> "draft_email", confidence |-> 600]
        ELSE IF AnyWord(user_lower, {"ask", "question", "tell me about"})
        THEN [primary_tool |-> "ask_jd_qa", confidence |-> 550]
        ELSE [primary_tool |-> None, confidence |-> 0]

_fallback_intent_detection(user_input) ==
    LET user_lower == user_input
    IN  IF AnyWord(user_lower, {"job", "match", "find", "search", "opportunity"})
        THEN [primary_tool |-> "get_matches", confidence |-> 650]
        ELSE IF AnyWord(user_lower, {"profile", "analyze", "check", "complete"})
        THEN [primary_tool |-> "profile_analyzer", confidence |-> 650]
        ELSE IF AnyWord(user_lower, {"skill", "suggest", "recommend"})
        THEN [primary_tool |-> "infer_skills", confidence |-> 600]
        ELSE IF AnyWord(user_lower, {"update", "change", "edit"})
        THEN [primary_tool |-> "update_profile", confidence |-> 600]
        ELSE IF AnyWord(user_lower, {"email", "message", "draft", "write"})
        THEN [primary_tool |-> "draft_email", confidence |-> 600]
        ELSE IF AnyWord(user_lower, {"ask", "question", "tell me about"})
        THEN [primary_tool |-> "ask_jd_qa", confidence |-> 550]
        ELSE [primary_tool |-> None, confidence |-> 0]

\* _detect_intent, lines 213-222: llm.raises when self.llm.invoke raises, else
\* llm.content is the reply; the except branch classifies the user's text by
\* keywords. The result also says which classifier ran.
_detect_intent(llm, user_input) ==
    IF llm.raises
    THEN [intent |-> _fallback_intent_detection(user_input), classifier |-> "keyword"]
    ELSE [intent |-> _parse_intent_response(llm.content), classifier |-> "llm"]

\* Variant: the LLM's exception leaves the call
ResponseText_Propagates(llm) == IF llm = "raise" THEN "raised" ELSE "llm"

\* "try: response = self.llm.invoke(messages) ... except Exception: response_text
\* = <canned text>": where the response text comes from
ResponseText(llm) == IF llm = "raise" THEN "canned" ELSE "llm"

\* Variant: two buttons
_create_action_buttons_Two(tool_names) ==
    SubSeq(tool_names, 1, IF Len(tool_names) < 2 THEN Len(tool_names) ELSE 2)

\* _create_action_buttons: one button per name of tool_names[:3]
_create_action_buttons(tool_names) ==
    SubSeq(tool_names, 1, IF Len(tool_names) < 3 THEN Len(tool_names) ELSE 3)

\* What a call of the agent hands back: the response dict (its keys that the
\* policy sets; None where the dict has no such key), the origin of its parts,
\* and the ranker's default_ranking after the call.
Reply(kind, mode, ranked_tools, confidence, mapped_tool, text, error, suggestion, formatted, dr) ==
    [response |-> [kind |-> kind,
                   mode |-> mode,
                   action_buttons |-> _create_action_buttons(ranked_tools),
                   confidence |-> confidence,
                   mapped_tool |-> mapped_tool,
                   response_text |-> text,
                   error |-> error,
                   suggestion_type |-> suggestion,
                   formatted_result |-> formatted,
                   raised |-> text = "raised"],
     default_ranking |-> dr]

RankArgs(primary_tool, confidence, completion_score, recent_action, last_match_scores, missing_sections) ==
    [primary_tool |-> primary_tool, confidence |-> confidence,
     completion_score |-> completion_score, recent_action |-> recent_action,
     last_match_scores |-> last_match_scores, missing_sections |-> missing_sections]


\* ------------------------------------------- profile_analyzer.py, tools.py
\* A profile is the set of its sections that hold data.
Sections == <<"experience", "qualification", "skills", "preferences", "languages">>

SectionWeight(section) ==
    CASE section = "experience" -> 30
      [] section = "qualification" -> 20
      [] section = "skills" -> 25
      [] section = "preferences" -> 15
      [] section = "languages" -> 10

RECURSIVE SumWeights(_)
SumWeights(sections) ==
    IF sections = {} THEN 0
    ELSE LET x == CHOOSE y \in sections : TRUE
         IN  SectionWeight(x) + SumWeights(sections \ {x})

\* A tool result: the keys of the dict that the agent and the context read.
\* success is result.get("success", True).
ToolResult(success, has_error) ==
    [success |-> success, has_error |-> has_error,
     has_average |-> FALSE, averageScore |-> 0,
     has_analysis |-> FALSE, completionScore |-> 0, missingSections |-> {},
     nextActions |-> <<>>]

\* insight["action"] of the insight that a missing section adds
InsightAction(section) ==
    CASE section = "experience" -> "update_profile_field"
      [] section = "qualification" -> "update_profile_field"
      [] section = "skills" -> "infer_skills"
      [] section = "preferences" -> "set_preferences"
      [] section = "languages" -> "update_profile_field"

\* The "tool" of each entry of next_actions, with completion_threshold = 80
NextActionTools(profile) ==
    LET absent(section) == section \notin profile
        missing == SelectSeq(Sections, absent)
    IN  IF SumWeights(profile) < 80
        THEN [i \in DOMAIN missing |-> InsightAction(missing[i])]
        ELSE <<"get_matches", "ask_jd_qa">>

profile_analyzer(profile) ==
    [ToolResult(TRUE, FALSE) EXCEPT
        !.has_analysis = TRUE,
        !.completionScore = SumWeights(profile),
        !.missingSections = Range(Sections) \ profile,
        !.nextActions = NextActionTools(profile)]

\* The profile as profile_analyzer reads it. A list is not in the profile at
\* all ("absent"), empty, or holds data; a preference key is absent or holds
\* data.
ListStates == {"absent", "empty", "data"}
KeyStates == {"absent", "data"}

\* bool(x) of a value that is None, an empty list or a list with entries
Truthy(value) == value = "data"

Cores ==
    [experiences : ListStates, educations : ListStates,
     topSkills : {"empty", "data"}, additionalSkills : {"empty", "data"},
     careerAspirationPreference : KeyStates, careerLocationPreference : KeyStates,
     languages : ListStates]

\* exp_ok, qual_ok, skills_ok, pref_ok, lang_ok
SectionOk(core, section) ==
    CASE section = "experience" -> Truthy(core.experiences)
      [] section = "qualification" -> Truthy(core.educations)
      [] section = "skills" -> Truthy(core.topSkills) \/ Truthy(core.additionalSkills)
      [] section = "preferences" -> /\ Truthy(core.careerAspirationPreference)
                                    /\ Truthy(core.careerLocationPreference)
      [] section = "languages" -> Truthy(core.languages)

\* The sections of a profile that hold data
SectionsWithData(core) == {section \in Range(Sections) : SectionOk(core, section)}

\* Variant: priorities are counted from 0
next_actions_FromZero(insights, completion_score, completion_threshold) ==
    IF completion_score < completion_threshold
    THEN [i \in DOMAIN insights |->
             [section |-> insights[i], tool |-> InsightAction(insights[i]), priority |-> i - 1]]
    ELSE <<[section |-> None, tool |-> "get_matches", priority |-> 1],
           [section |-> None, tool |-> "ask_jd_qa", priority |-> 2]>>

\* next_actions: an entry per insight below the threshold, the two fixed entries
\* from it. insights is the sequence of sections an insight was added for.
next_actions(insights, completion_score, completion_threshold) ==
    IF completion_score < completion_threshold
    THEN [i \in DOMAIN insights |->
             [section |-> insights[i], tool |-> InsightAction(insights[i]), priority |-> i]]
    ELSE <<[section |-> None, tool |-> "get_matches", priority |-> 1],
           [section |-> None, tool |-> "ask_jd_qa", priority |-> 2]>>

\* score += weight if ok else 0, section after section
RECURSIVE ScoreOf(_, _)
ScoreOf(core, sections) ==
    IF sections = <<>> THEN 0
    ELSE (IF SectionOk(core, Head(sections)) THEN SectionWeight(Head(sections)) ELSE 0)
         + ScoreOf(core, Tail(sections))

\* profile_analyzer(profile, completion_threshold): the returned dict
AnalyzeProfile(core, completion_threshold) ==
    LET notOk(section) == ~SectionOk(core, section)
        missing_sections == SelectSeq(Sections, notOk)
        completion_score == ScoreOf(core, Sections)
    IN  [completionScore |-> completion_score,
         missingSections |-> missing_sections,
         nextActions |-> next_actions(missing_sections, completion_score,
                                      completion_threshold)]

\* base_score of the five mock jobs, and the jobs a country filter keeps
MockJobScores == <<88, 85, 82, 79, 76>>

FilteredJobs(filters) ==
    CASE filters = None -> <<1, 2, 3, 4, 5>>
      [] filters = "United States" -> <<1, 5>>
      [] filters = "Switzerland" -> <<2>>
      [] filters = "Singapore" -> <<3>>
      [] filters = "United Kingdom" -> <<4>>
      [] OTHER -> <<>>

\* get_matches with the default top_k = 3 and no search text: averageScore is
\* round(sum / len, 1) of the top matches, 0 without matches.
get_matches(filters) ==
    LET filtered_jobs == FilteredJobs(filters)
        top_matches == SubSeq(filtered_jobs, 1, Min(3, Len(filtered_jobs)))
        total == SumSeq([i \in DOMAIN top_matches |-> MockJobScores[top_matches[i]]])
        avg_score == IF top_matches = <<>> THEN 0
                     ELSE (20 * total + Len(top_matches)) \div (2 * Len(top_matches))
    IN  [ToolResult(TRUE, FALSE) EXCEPT !.has_average = TRUE, !.averageScore = avg_score]

\* update_profile: only the skills section is supported; another section is
\* refused with success False and a message
update_profile(section) ==
    IF section # "skills" THEN ToolResult(FALSE, FALSE) ELSE ToolResult(TRUE, FALSE)

\* The parameters a caller hands to each tool. "invalid" is a value of the wrong
\* type (completion_threshold, top_k, question, recipient_type), on which the
\* tool raises.
ToolParams(tool_name) ==
    CASE tool_name = "profile_analyzer" -> {"default", "invalid"}
      [] tool_name = "update_profile" -> {"skills", "experience"}
      [] tool_name = "infer_skills" -> {"default"}
      [] tool_name = "get_matches" -> {None, "Atlantis", "invalid"}
      [] tool_name = "ask_jd_qa" -> {"default", "invalid"}
      [] tool_name = "draft_email" -> {"default", "invalid"}

\* execute_tool: the dispatcher, with its except branch
execute_tool(tool_name, profile, params) ==
    IF params = "invalid" THEN ToolResult(FALSE, TRUE)
    ELSE CASE tool_name = "profile_analyzer" -> profile_analyzer(profile)
           [] tool_name = "update_profile" -> update_profile(params)
           [] tool_name = "infer_skills" -> ToolResult(TRUE, FALSE)
           [] tool_name = "get_matches" -> get_matches(params)
           [] tool_name = "ask_jd_qa" -> ToolResult(TRUE, FALSE)
           [] tool_name = "draft_email" -> ToolResult(TRUE, FALSE)
           [] OTHER -> ToolResult(FALSE, TRUE)

\* ------------------------------------------------- context_manager.py
\* Variant: matches are shown whatever the completion score
can_show_matches_Always(ctx) == ctx.profile_completion_score >= 0

\* Variant: matches are shown from a completion score of 45
can_show_matches_Low(ctx) == ctx.profile_completion_score >= 45

can_show_matches(ctx) == ctx.profile_completion_score >= 50

should_suggest_profile_improvement(ctx) == ctx.consecutive_low_matches >= 2

get_last_match_scores(ctx) == ctx.match_history

\* Variant: the window of the context is the last three entries
LastTwo_Three(history) ==
    IF Len(history) <= 3 THEN history ELSE SubSeq(history, Len(history) - 2, Len(history))

\* match_history[-2:]
LastTwo(history) ==
    IF Len(history) <= 2 THEN history ELSE SubSeq(history, Len(history) - 1, Len(history))

\* Variant: the counter of low sessions is never reset
_track_match_result_NoReset(ctx, match_result) ==
    LET avg_score == IF match_result.has_average THEN match_result.averageScore ELSE 0
        match_history == Append(ctx.match_history, avg_score)
        recent_matches == LastTwo(match_history)
    IN  [ctx EXCEPT
            !.match_history = match_history,
            !.consecutive_low_matches =
                IF Len(recent_matches) >= 2
                      /\ \A i \in DOMAIN recent_matches : recent_matches[i] < 600
                THEN Len(recent_matches)
                ELSE @]

_track_match_result(ctx, match_result) ==
    LET avg_score == IF match_result.has_average THEN match_result.averageScore ELSE 0
        match_history == Append(ctx.match_history, avg_score)
        recent_matches == LastTwo(match_history)
    IN  [ctx EXCEPT
            !.match_history = match_history,
            !.consecutive_low_matches =
                IF Len(recent_matches) >= 2
                THEN IF \A i \in DOMAIN recent_matches : recent_matches[i] < 600
                     THEN Len(recent_matches)
                     ELSE 0
                ELSE @]

\* Variant: a successful update_profile writes the skills section into the
\* stored profile
add_action_AppliesUpdate(ctx, tool_name, result) ==
    LET recorded == [ctx EXCEPT !.last_tool_executed = tool_name,
                                !.profile = IF tool_name = "update_profile" /\ result.success
                                            THEN @ \cup {"skills"} ELSE @]
    IN  IF tool_name = "get_matches" THEN _track_match_result(recorded, result) ELSE recorded

add_action(ctx, tool_name, result) ==
    LET recorded == [ctx EXCEPT !.last_tool_executed = tool_name]
    IN  IF tool_name = "get_matches" THEN _track_match_result(recorded, result) ELSE recorded

update_profile_analysis(ctx, analysis_result) ==
    [ctx EXCEPT
        !.profile_completion_score =
            IF analysis_result.has_analysis THEN analysis_result.completionScore ELSE 0,
        !.missing_sections =
            IF analysis_result.has_analysis THEN analysis_result.missingSections ELSE {}]

\* AgentContext.__init__. The fields that nothing reads back to decide anything
\* (session_start, chat_history, action_history, tool_results,
\* profile_analysis_result, current_intent, last_confidence) are left out; the
\* intent and confidence of a turn are kept with its response.
AgentContext(profile) ==
    [profile |-> profile,
     last_tool_executed |-> None,
     pending_clarification |-> FALSE,
     match_history |-> <<>>,
     consecutive_low_matches |-> 0,
     profile_completion_score |-> 0,
     missing_sections |-> {}]

\* ------------------------------------------------------ agent.py, responses
_generate_fallback_response(ctx, llm_text, dr) ==
    LET ranked == rank_tools(RankArgs(None, 0, ctx.profile_completion_score, None, <<>>,
                                      ctx.missing_sections), dr)
    IN  Reply("turn", "fallback", ranked.result, 0, None, ResponseText(llm_text),
              FALSE, None, FALSE, ranked.default_ranking)

_generate_clarifying_response(intent_result, ctx, llm_text, dr) ==
    LET ranked == rank_tools(RankArgs(intent_result.primary_tool, intent_result.confidence,
                                      ctx.profile_completion_score, None, <<>>,
                                      ctx.missing_sections), dr)
    IN  Reply("turn", "clarify", ranked.result, intent_result.confidence,
              intent_result.primary_tool, ResponseText(llm_text),
              FALSE, None, FALSE, ranked.default_ranking)

_generate_profile_improvement_suggestion(ctx, llm_text, dr) ==
    Reply("turn", "recommend", <<"profile_analyzer", "infer_skills", "update_profile">>,
          None, None, ResponseText(llm_text), FALSE, "profile_improvement", FALSE, dr)

_generate_tool_recommendation_response(primary_tool, confidence, ctx, llm_text, dr) ==
    IF primary_tool = "get_matches" /\ ~can_show_matches(ctx)
    THEN _generate_profile_improvement_suggestion(ctx, llm_text, dr)
    ELSE IF should_suggest_profile_improvement(ctx)
    THEN _generate_profile_improvement_suggestion(ctx, llm_text, dr)
    ELSE LET ranked == rank_tools(RankArgs(primary_tool, confidence,
                                           ctx.profile_completion_score,
                                           ctx.last_tool_executed, <<>>,
                                           ctx.missing_sections), dr)
         IN  Reply("turn", "recommend", ranked.result, confidence, primary_tool,
                   ResponseText(llm_text), FALSE, None, FALSE, ranked.default_ranking)

\* Variant: the error response ranks with the missing sections, as a Fallback
\* turn does
_generate_error_response_WithMissing(tool_name, result, ctx, llm_text, dr) ==
    LET ranked == rank_tools(RankArgs(None, 0, ctx.profile_completion_score, None, <<>>,
                                      ctx.missing_sections), dr)
    IN  Reply("tool", None, ranked.result, None, None, ResponseText(llm_text),
              TRUE, None, FALSE, ranked.default_ranking)

_generate_error_response(tool_name, result, ctx, llm_text, dr) ==
    LET ranked == rank_tools(RankArgs(None, 0, ctx.profile_completion_score, None, <<>>, {}),
                             dr)
    IN  Reply("tool", None, ranked.result, None, None, ResponseText(llm_text),
              TRUE, None, FALSE, ranked.default_ranking)

_generate_tool_result_response(tool_name, result, ctx, llm_text, dr) ==
    IF ~result.success /\ result.has_error
    THEN _generate_error_response(tool_name, result, ctx, llm_text, dr)
    ELSE LET ranked == rank_tools(RankArgs(None, 0, ctx.profile_completion_score, tool_name,
                                           get_last_match_scores(ctx),
                                           ctx.missing_sections), dr)
         IN  Reply("tool", None, ranked.result, None, None, ResponseText(llm_text),
                   FALSE, None, TRUE, ranked.default_ranking)

NoResponse ==
    [kind |-> None, mode |-> None, action_buttons |-> <<>>, confidence |-> None,
     mapped_tool |-> None, response_text |-> None, error |-> FALSE,
     suggestion_type |-> None, formatted_result |-> FALSE, raised |-> FALSE,
     classifier |-> None, intent |-> None, intent_confidence |-> 0,
     tool_name |-> None, tool_success |-> TRUE, next_actions |-> <<>>,
     tool_average |-> <<>>]

\* The response together with what the call was: the classifier that gave the
\* turn's intent and that intent (current_intent, last_confidence), or the
\* tool executed and its result's success; next_actions is the tools named by
\* nextActions of the "tool_result" that a tool-result response carries, and
\* tool_average the averageScore of the tool's result, if it has one.
Returned(reply, classifier, intent_result, tool_name, tool_success) ==
    [kind |-> reply.response.kind, mode |-> reply.response.mode,
     action_buttons |-> reply.response.action_buttons,
     confidence |-> reply.response.confidence,
     mapped_tool |-> reply.response.mapped_tool,
     response_text |-> reply.response.response_text,
     error |-> reply.response.error,
     suggestion_type |-> reply.response.suggestion_type,
     formatted_result |-> reply.response.formatted_result,
     raised |-> reply.response.raised,
     classifier |-> classifier,
     intent |-> intent_result.primary_tool,
     intent_confidence |-> intent_result.confidence,
     tool_name |-> tool_name, tool_success |-> tool_success, next_actions |-> <<>>,
     tool_average |-> <<>>]

NoIntent == [primary_tool |-> None, confidence |-> 0]

\* ------------------------------------------------------- ranking harness
\* No chat session is open: the registry of a fresh ContextManager
NoCall == [op |-> None, user_id |-> None, profile |-> {}, returned |-> 0]

\* No profile_analyzer call is observed
NoAnalysis == [called |-> FALSE, core |-> None, completion_threshold |-> 80, result |-> None]

NoSessions ==
    /\ active_contexts = <<>>
    /\ user_session = <<>>
    /\ agent_contexts = <<>>
    /\ registry_call = NoCall
    /\ analysis = NoAnalysis

\* Callers of the singleton ranker: every argument list over the sampled values.
ConfidenceSamples == {0, 449, 450, 749, 750, 1000}
CompletionSamples == {0, 49, 50, 79, 80, 100}
MatchScoreSamples == {550, 650}
SectionSamples == {"skills", "experience"}
RecentSamples == {None, "get_matches", "profile_analyzer"}

ScoreLists(n) == UNION {[1..k -> MatchScoreSamples] : k \in 0..n}

ArgsOver(confs, scores, recents, lists, sections) ==
    [primary_tool : Tools \cup {None},
     confidence : confs,
     completion_score : scores,
     recent_action : recents,
     last_match_scores : lists,
     missing_sections : sections]

Args == ArgsOver(ConfidenceSamples, CompletionSamples, RecentSamples,
                 ScoreLists(MaxScores), SUBSET SectionSamples)

\* The argument lists of the call-sequence harness
SeqArgs == ArgsOver({0, 450, 750}, {49, 100}, {None, "get_matches"},
                    {<<>>, <<550, 550>>}, {{}})

NoMode == [confidence |-> 0, mode |-> None, use_fallback |-> FALSE, show_clarifying |-> FALSE]

\* No text classified
NoTurn == [user_input |-> {}, primary_tool |-> None, confidence |-> 0, mode |-> None]

InitRanker ==
    /\ default_ranking = DEFAULT_TOOL_RANKING
    /\ _ranker_instance = None
    /\ context = AgentContext({})
    /\ response = NoResponse
    /\ NoSessions

InitHarness(args) ==
    /\ InitRanker
    /\ r_args \in args
    /\ r_result = <<>>
    /\ r_prev = <<>>
    /\ r_calls = 0
    /\ r_mode = NoMode
    /\ fallback_turn = NoTurn

\* tool_ranker.get_tool_ranker: the instance is made on the first call only, and
\* ToolRanker.__init__ binds default_ranking to the DEFAULT_TOOL_RANKING object.
get_tool_ranker ==
    /\ _ranker_instance = None
    /\ _ranker_instance' = "ToolRanker"
    /\ UNCHANGED <<active_contexts, user_session, agent_contexts, registry_call, analysis>>
    /\ UNCHANGED <<default_ranking, r_args, r_result, r_prev, r_calls, r_mode, fallback_turn,
                 context, response>>

\* get_tool_ranker().rank_tools(**r_args), its result observed
RankObserved ==
    /\ _ranker_instance # None
    /\ r_calls < MaxCalls
    /\ LET call == rank_tools(r_args, default_ranking)
       IN  /\ r_result' = call.result
           /\ default_ranking' = call.default_ranking
    /\ r_prev' = r_result
    /\ r_calls' = r_calls + 1
    /\ UNCHANGED <<active_contexts, user_session, agent_contexts, registry_call, analysis>>
    /\ UNCHANGED <<_ranker_instance, r_args, r_mode, fallback_turn, context, response>>

\* get_tool_ranker().rank_tools(**a) by another caller, between the observed calls
RankOther ==
    /\ _ranker_instance # None
    /\ r_calls < MaxCalls
    /\ \E a \in SeqArgs : default_ranking' = rank_tools(a, default_ranking).default_ranking
    /\ r_calls' = r_calls + 1
    /\ UNCHANGED <<active_contexts, user_session, agent_contexts, registry_call, analysis>>
    /\ UNCHANGED <<_ranker_instance, r_args, r_result, r_prev, r_mode, fallback_turn, context,
                 response>>

\* The strategy selection of process_user_input and the ranker's two predicates,
\* applied to one confidence
SelectMode ==
    /\ r_mode.mode = None
    /\ r_mode' = [confidence |-> r_mode.confidence,
                  mode |-> ResponseMode(r_mode.confidence),
                  use_fallback |-> should_use_fallback(r_mode.confidence),
                  show_clarifying |-> should_show_clarifying_questions(r_mode.confidence)]
    /\ UNCHANGED <<active_contexts, user_session, agent_contexts, registry_call, analysis>>
    /\ UNCHANGED <<default_ranking, _ranker_instance, r_args, r_result, r_prev, r_calls,
                 fallback_turn, context, response>>

NoArgs ==
    [primary_tool |-> None, confidence |-> 0, completion_score |-> 100,
     recent_action |-> None, last_match_scores |-> <<>>, missing_sections |-> {}]

InitRank == InitHarness(Args)
NextRank == get_tool_ranker \/ RankObserved
SpecRank == InitRank /\ [][NextRank]_vars

InitSeq == InitHarness(SeqArgs)
NextSeq == get_tool_ranker \/ RankObserved \/ RankOther
SpecSeq == InitSeq /\ [][NextSeq]_vars

InitMode ==
    /\ InitRanker
    /\ r_args = NoArgs
    /\ r_result = <<>>
    /\ r_prev = <<>>
    /\ r_calls = 0
    /\ \E c \in 0..1000 : r_mode = [NoMode EXCEPT !.confidence = c]
    /\ fallback_turn = NoTurn
NextMode == SelectMode
SpecMode == InitMode /\ [][NextMode]_vars

\* ------------------------------------------------------ keyword arguments
\* The parameters of rank_tools that decide its result
RankFields ==
    {"primary_tool", "confidence", "completion_score", "recent_action",
     "last_match_scores", "missing_sections"}

\* Variant: a completion score that is not given counts as 0
SignatureDefaults_ScoreZero ==
    [primary_tool |-> None, confidence |-> 0, completion_score |-> 0,
     recent_action |-> None, last_match_scores |-> <<>>, missing_sections |-> {}]

\* The defaults in the signature of rank_tools. last_match_scores = None and
\* missing_sections = None stand as the empty list: every use of them tests
\* "not scores" or "missing_sections and ...", which None and [] answer alike.
SignatureDefaults ==
    [primary_tool |-> None, confidence |-> 0, completion_score |-> 100,
     recent_action |-> None, last_match_scores |-> <<>>, missing_sections |-> {}]

\* Python binds the keyword arguments of a call: a parameter that is not given
\* takes its default
BindArguments(kwargs) ==
    [f \in RankFields |-> IF f \in DOMAIN kwargs THEN kwargs[f] ELSE SignatureDefaults[f]]

\* The calls with some of the arguments given
GivenArgs ==
    ArgsOver({0, 450, 750}, {49, 79, 100}, {None, "get_matches"},
             {<<>>, <<550, 550>>}, SUBSET {"skills"})

PartialArgs == {[f \in given |-> a[f]] : a \in GivenArgs, given \in SUBSET RankFields}

\* get_tool_ranker().rank_tools(**r_args), r_args naming some of the parameters
RankPartial ==
    /\ _ranker_instance # None
    /\ r_calls < MaxCalls
    /\ LET call == rank_tools(BindArguments(r_args), default_ranking)
       IN  /\ r_result' = call.result
           /\ default_ranking' = call.default_ranking
    /\ r_prev' = r_result
    /\ r_calls' = r_calls + 1
    /\ UNCHANGED <<active_contexts, user_session, agent_contexts, registry_call, analysis>>
    /\ UNCHANGED <<_ranker_instance, r_args, r_mode, fallback_turn, context, response>>

InitPartial == InitHarness(PartialArgs)
NextPartial == get_tool_ranker \/ RankPartial
SpecPartial == InitPartial /\ [][NextPartial]_vars

\* ----------------------------------------------------- classifier harness
\* The words _fallback_intent_detection looks for
FallbackWords ==
    {"job", "match", "find", "search", "opportunity",
     "profile", "analyze", "check", "complete",
     "skill", "suggest", "recommend",
     "update", "change", "edit",
     "email", "message", "draft", "write",
     "ask", "question", "tell me about"}

\* A user text, as the fallback words that occur in it
UserTexts == {t \in SUBSET FallbackWords : Cardinality(t) <= MaxWords}

InitIntent ==
    /\ InitRanker
    /\ r_args = NoArgs
    /\ r_result = <<>>
    /\ r_prev = <<>>
    /\ r_calls = 0
    /\ r_mode = NoMode
    /\ \E t \in UserTexts : fallback_turn = [NoTurn EXCEPT !.user_input = t]

\* process_user_input of a text while the LLM's intent call raises: _detect_intent
\* takes its except branch, and the strategy is selected from the confidence
KeywordTurn ==
    /\ fallback_turn.mode = None
    /\ LET detected == _detect_intent([raises |-> TRUE, content |-> {}],
                                      fallback_turn.user_input)
       IN  fallback_turn' = [user_input |-> fallback_turn.user_input,
                             primary_tool |-> detected.intent.primary_tool,
                             confidence |-> detected.intent.confidence,
                             mode |-> ResponseMode(detected.intent.confidence)]
    /\ UNCHANGED <<active_contexts, user_session, agent_contexts, registry_call, analysis>>
    /\ UNCHANGED <<default_ranking, _ranker_instance, r_args, r_result, r_prev, r_calls,
                   r_mode, context, response>>

NextIntent == KeywordTurn
SpecIntent == InitIntent /\ [][NextIntent]_vars


\* ------------------------------------------------------- LLM reply harness
\* The most keywords of one action in a reply
MaxReplyHits == 4

\* The first k keywords of an action, for every k up to its whole list
LeadingWords(t, k) == {tool_keywords[t][i] : i \in 1..Min(k, Len(tool_keywords[t]))}

\* An LLM reply, as the keywords written in it: keywords of up to two actions
ReplyTexts ==
    {LeadingWords(t, k) \cup LeadingWords(u, j) :
        t \in Tools, u \in Tools, k \in 0..MaxReplyHits, j \in 0..MaxReplyHits}

\* The turn record holds the reply text in place of the user's text
InitReply ==
    /\ InitRanker
    /\ r_args = NoArgs
    /\ r_result = <<>>
    /\ r_prev = <<>>
    /\ r_calls = 0
    /\ r_mode = NoMode
    /\ \E t \in ReplyTexts : fallback_turn = [NoTurn EXCEPT !.user_input = t]

\* process_user_input while the LLM's intent call returns the reply: _detect_intent
\* parses it, and the strategy is selected from the confidence
ParsedTurn ==
    /\ fallback_turn.mode = None
    /\ LET detected == _detect_intent([raises |-> FALSE, content |-> fallback_turn.user_input],
                                      {})
       IN  fallback_turn' = [user_input |-> fallback_turn.user_input,
                             primary_tool |-> detected.intent.primary_tool,
                             confidence |-> detected.intent.confidence,
                             mode |-> ResponseMode(detected.intent.confidence)]
    /\ UNCHANGED <<active_contexts, user_session, agent_contexts, registry_call, analysis>>
    /\ UNCHANGED <<default_ranking, _ranker_instance, r_args, r_result, r_prev, r_calls,
                   r_mode, context, response>>

NextReply == ParsedTurn
SpecReply == InitReply /\ [][NextReply]_vars

\* ---------------------------------------------------------------- session
\* The profiles a session is opened with
Profiles ==
    {{},
     {"qualification", "skills"},
     {"experience", "qualification"},
     {"experience", "qualification", "skills"},
     {"experience", "qualification", "skills", "preferences", "languages"}}

\* FirstWords(t, k): an LLM reply in which the first k keywords of tool t occur
FirstWords(t, k) == {tool_keywords[t][i] : i \in 1..Min(k, Len(tool_keywords[t]))}

LLMReplies == {FirstWords(t, k) : t \in Tools, k \in 0..MaxHits}

\* self.llm.invoke(messages) for the intent: it raises, or replies
LLMOutcomes ==
    {[raises |-> TRUE, content |-> {}]} \cup {[raises |-> FALSE, content |-> r] : r \in LLMReplies}

\* What the user types, as the fallback keywords that occur in it
UserInputs == {{}, {"job"}, {"profile"}, {"skill"}, {"update"}, {"email"}, {"ask"}}

InitSession(profiles) ==
    /\ default_ranking = DEFAULT_TOOL_RANKING
    /\ _ranker_instance = "ToolRanker"
    /\ r_args = NoArgs
    /\ r_result = <<>>
    /\ r_prev = <<>>
    /\ r_calls = 0
    /\ r_mode = NoMode
    /\ fallback_turn = NoTurn
    /\ \E profile \in profiles : context = AgentContext(profile)
    /\ response = NoResponse
    /\ NoSessions

Init == InitSession(Profiles)

\* What _detect_intent returns over the LLM outcomes and the user inputs
DetectedIntents ==
    {_detect_intent(llm_intent, user_input) : llm_intent \in LLMOutcomes, user_input \in UserInputs}

\* Variant: a turn below 0.45 keeps its candidate action, as a Clarify turn does
TurnReply_FallbackKeepsPrimary(intent_result, ctx, llm_text, dr) ==
    LET mode == ResponseMode(intent_result.confidence)
    IN  CASE mode = "fallback" -> _generate_clarifying_response(intent_result, ctx, llm_text, dr)
          [] mode = "clarify" -> _generate_clarifying_response(intent_result, ctx, llm_text, dr)
          [] OTHER -> _generate_tool_recommendation_response(
                          intent_result.primary_tool, intent_result.confidence, ctx,
                          llm_text, dr)

\* process_user_input, step 2: the response of the strategy that the confidence selects
TurnReply(intent_result, ctx, llm_text, dr) ==
    LET mode == ResponseMode(intent_result.confidence)
    IN  CASE mode = "fallback" -> _generate_fallback_response(ctx, llm_text, dr)
          [] mode = "clarify" -> _generate_clarifying_response(intent_result, ctx, llm_text, dr)
          [] OTHER -> _generate_tool_recommendation_response(
                          intent_result.primary_tool, intent_result.confidence, ctx,
                          llm_text, dr)

\* MyCareerAgent.process_user_input; intents: what _detect_intent may return,
\* text_outcomes: what the LLM call for the response text may do
ProcessUserInput(intents, text_outcomes) ==
    \E detected \in intents, llm_text \in text_outcomes :
        LET intent_result == detected.intent
            mode == ResponseMode(intent_result.confidence)
            ctx == [context EXCEPT
                       !.pending_clarification =
                           CASE mode = "clarify" -> TRUE
                             [] mode = "recommend" -> FALSE
                             [] OTHER -> @]
        IN  \E reply \in {TurnReply(intent_result, ctx, llm_text, default_ranking)} :
                /\ context' = ctx
                /\ response' = Returned(reply, detected.classifier, intent_result, None, TRUE)
                /\ default_ranking' = reply.default_ranking
                /\ UNCHANGED <<active_contexts, user_session, agent_contexts, registry_call, analysis>>
                /\ UNCHANGED <<_ranker_instance, r_args, r_result, r_prev, r_calls, r_mode,
                               fallback_turn>>

\* MyCareerAgent.execute_tool_action for a tool of tools
ExecuteToolAction(tools, text_outcomes) ==
    \E tool_name \in tools, llm_text \in text_outcomes :
        \E params \in ToolParams(tool_name) :
            LET result == execute_tool(tool_name, context.profile, params)
                recorded == add_action(context, tool_name, result)
                ctx == IF tool_name = "profile_analyzer"
                       THEN update_profile_analysis(recorded, result)
                       ELSE recorded
            IN  \E reply \in {_generate_tool_result_response(tool_name, result, ctx, llm_text,
                                                              default_ranking)} :
                    /\ tool_name = "get_matches" => Len(context.match_history) < MaxMatches
                    /\ context' = ctx
                    /\ response' = [Returned(reply, None, NoIntent, tool_name, result.success)
                                       EXCEPT !.next_actions =
                                           IF reply.response.error THEN <<>>
                                           ELSE result.nextActions,
                                              !.tool_average =
                                           IF result.has_average
                                           THEN <<result.averageScore>> ELSE <<>>]
                    /\ default_ranking' = reply.default_ranking
                    /\ UNCHANGED <<active_contexts, user_session, agent_contexts, registry_call, analysis>>
                    /\ UNCHANGED <<_ranker_instance, r_args, r_result, r_prev, r_calls, r_mode,
                                   fallback_turn>>

\* A session in which the LLM writes every response text
process_user_input == ProcessUserInput(DetectedIntents, {"ok"})
execute_tool_action == ExecuteToolAction(Tools, {"ok"})
Next == process_user_input \/ execute_tool_action
Spec == Init /\ [][Next]_vars

\* A session in which any LLM call may raise
process_user_input_failing == ProcessUserInput(DetectedIntents, {"ok", "raise"})
execute_tool_action_failing == ExecuteToolAction({"profile_analyzer", "get_matches"}, {"ok", "raise"})
NextFail == process_user_input_failing \/ execute_tool_action_failing
InitFail ==
    InitSession({{"qualification", "skills"},
                 {"experience", "qualification", "skills", "preferences", "languages"}})
SpecFail == InitFail /\ [][NextFail]_vars

\* ---------------------------------------------------------- policy harness
\* One turn on a context of any completion score, for a classification of any
\* tool at the sampled confidences and at those _parse_intent_response gives
PolicyContexts ==
    {[AgentContext({}) EXCEPT !.profile_completion_score = s, !.missing_sections = m] :
        s \in 0..100, m \in SUBSET SectionSamples}

PolicyIntents ==
    {[intent |-> [primary_tool |-> t, confidence |-> c], classifier |-> "llm"] :
        t \in Tools, c \in ConfidenceSamples \cup {400, 550, 700, 850, 950}}

InitPolicy ==
    /\ default_ranking = DEFAULT_TOOL_RANKING
    /\ _ranker_instance = "ToolRanker"
    /\ r_args = NoArgs
    /\ r_result = <<>>
    /\ r_prev = <<>>
    /\ r_calls = 0
    /\ r_mode = NoMode
    /\ fallback_turn = NoTurn
    /\ context \in PolicyContexts
    /\ response = NoResponse
    /\ NoSessions

\* The first turn of a session
process_user_input_classified ==
    /\ response.kind = None
    /\ ProcessUserInput(PolicyIntents, {"ok"})
NextPolicy == process_user_input_classified
SpecPolicy == InitPolicy /\ [][NextPolicy]_vars

\* ------------------------------------------------ app.py, chat sessions
MaxSessions == 3
Sessions == 1..MaxSessions

\* cl.user_session.get("user"): the user auth() logged in, or None
Users == {None, "admin"}

\* What load_profile may read from the profile file
LoadedProfiles == {{}, {"skills"}}

\* cl.user_session.get("agent_context") of a session that has none yet
NoContext == 0

\* Variant: a context is made on every call
get_or_create_context_AlwaysNew(registry, objects, user_id, profile) ==
    [context |-> Len(objects) + 1,
     active_contexts |-> [v \in DOMAIN registry \cup {user_id} |->
                             IF v = user_id THEN Len(objects) + 1 ELSE registry[v]],
     agent_contexts |-> Append(objects, AgentContext(profile))]

\* ContextManager.get_or_create_context over the registry and the objects made
\* so far: the object of user_id is made on the first call for user_id only
get_or_create_context(registry, objects, user_id, profile) ==
    IF user_id \notin DOMAIN registry
    THEN [context |-> Len(objects) + 1,
          active_contexts |-> registry @@ (user_id :> Len(objects) + 1),
          agent_contexts |-> Append(objects, AgentContext(profile))]
    ELSE IF profile # {} /\ objects[registry[user_id]].profile = {}
    THEN [context |-> registry[user_id],
          active_contexts |-> registry,
          agent_contexts |-> [objects EXCEPT ![registry[user_id]].profile = profile]]
    ELSE [context |-> registry[user_id],
          active_contexts |-> registry,
          agent_contexts |-> objects]

\* app.get_user_context in chat session s, whose store is store
get_user_context(s, store) ==
    LET user == store[s].user
        user_id == IF user # None THEN user ELSE "default_user"
    IN  IF store[s].agent_context # NoContext
        THEN [context |-> store[s].agent_context,
              active_contexts |-> active_contexts,
              user_session |-> store,
              agent_contexts |-> agent_contexts]
        ELSE LET made == get_or_create_context(active_contexts, agent_contexts, user_id,
                                               store[s].profile)
             IN  [context |-> made.context,
                  active_contexts |-> made.active_contexts,
                  user_session |-> [store EXCEPT ![s].agent_context = made.context],
                  agent_contexts |-> made.agent_contexts]

SessionUnchanged ==
    UNCHANGED <<default_ranking, _ranker_instance, r_args, r_result, r_prev, r_calls, r_mode,
                fallback_turn, context, response, registry_call, analysis>>

\* app.on_chat_start of chat session s
on_chat_start(s) ==
    /\ ~user_session[s].started
    /\ \E profile \in LoadedProfiles :
           LET got == get_user_context(s, [user_session EXCEPT ![s].profile = profile,
                                                                 ![s].started = TRUE])
           IN  /\ active_contexts' = got.active_contexts
               /\ user_session' = got.user_session
               /\ agent_contexts' = got.agent_contexts
    /\ SessionUnchanged

\* app.on_ask_jd_qa of chat session s, for a button without job id and question
on_ask_jd_qa(s) ==
    /\ user_session[s].started
    /\ LET got == get_user_context(s, user_session)
       IN  /\ active_contexts' = got.active_contexts
           /\ user_session' = got.user_session
           /\ agent_contexts' = [got.agent_contexts EXCEPT
                                    ![got.context].pending_clarification = TRUE]
    /\ SessionUnchanged

\* app.execute_tool_action of chat session s, as called by on_profile_analyzer
\* and on_infer_skills: the tool runs on the session's context object
SessionToolAction(s, tool_name) ==
    /\ user_session[s].started
    /\ LET got == get_user_context(s, user_session)
           ctx == got.agent_contexts[got.context]
           result == execute_tool(tool_name, ctx.profile, "default")
           recorded == add_action(ctx, tool_name, result)
       IN  /\ active_contexts' = got.active_contexts
           /\ user_session' = got.user_session
           /\ agent_contexts' = [got.agent_contexts EXCEPT
                                    ![got.context] =
                                        IF tool_name = "profile_analyzer"
                                        THEN update_profile_analysis(recorded, result)
                                        ELSE recorded]
    /\ SessionUnchanged

on_profile_analyzer(s) == SessionToolAction(s, "profile_analyzer")
on_infer_skills(s) == SessionToolAction(s, "infer_skills")

InitSessions ==
    /\ default_ranking = DEFAULT_TOOL_RANKING
    /\ _ranker_instance = "ToolRanker"
    /\ r_args = NoArgs
    /\ r_result = <<>>
    /\ r_prev = <<>>
    /\ r_calls = 0
    /\ r_mode = NoMode
    /\ fallback_turn = NoTurn
    /\ context = AgentContext({})
    /\ response = NoResponse
    /\ active_contexts = <<>>
    /\ agent_contexts = <<>>
    /\ registry_call = NoCall
    /\ analysis = NoAnalysis
    /\ user_session \in [Sessions -> {[user |-> u, profile |-> {}, agent_context |-> NoContext,
                                       started |-> FALSE] : u \in Users}]

ChatStart == \E s \in Sessions : on_chat_start(s)
AskJdQa == \E s \in Sessions : on_ask_jd_qa(s)
ProfileAnalyzer == \E s \in Sessions : on_profile_analyzer(s)
InferSkills == \E s \in Sessions : on_infer_skills(s)
NextSessions == ChatStart \/ AskJdQa \/ ProfileAnalyzer \/ InferSkills
SpecSessions == InitSessions /\ [][NextSessions]_vars

\* ------------------------------------------ context_manager.py, registry
\* Callers of the ContextManager: any of its calls for any user id, and actions
\* recorded on a registered context in between.
MaxContexts == 3
UserIds == {"admin", "default_user"}

\* ContextManager.get_context
get_context(registry, user_id) ==
    IF user_id \in DOMAIN registry THEN registry[user_id] ELSE NoContext

\* ContextManager.clear_context: the registry after the call
clear_context(registry, user_id) ==
    IF user_id \in DOMAIN registry
    THEN [v \in DOMAIN registry \ {user_id} |-> registry[v]]
    ELSE registry

RegistryUnchanged ==
    UNCHANGED <<default_ranking, _ranker_instance, r_args, r_result, r_prev, r_calls, r_mode,
                fallback_turn, context, response, user_session, analysis>>

GetOrCreateContext ==
    /\ \E user_id \in UserIds, profile \in LoadedProfiles :
           /\ user_id \in DOMAIN active_contexts \/ Len(agent_contexts) < MaxContexts
           /\ LET made == get_or_create_context(active_contexts, agent_contexts, user_id, profile)
              IN  /\ active_contexts' = made.active_contexts
                  /\ agent_contexts' = made.agent_contexts
                  /\ registry_call' = [op |-> "get_or_create_context", user_id |-> user_id,
                                       profile |-> profile, returned |-> made.context]
    /\ RegistryUnchanged

GetContext ==
    /\ \E user_id \in UserIds :
           registry_call' = [op |-> "get_context", user_id |-> user_id, profile |-> {},
                             returned |-> get_context(active_contexts, user_id)]
    /\ UNCHANGED <<active_contexts, agent_contexts>>
    /\ RegistryUnchanged

ClearContext ==
    /\ \E user_id \in UserIds :
           /\ active_contexts' = clear_context(active_contexts, user_id)
           /\ registry_call' = [op |-> "clear_context", user_id |-> user_id, profile |-> {},
                                returned |-> NoContext]
    /\ UNCHANGED agent_contexts
    /\ RegistryUnchanged

\* AgentContext.add_action on the registered context of a user
RecordAction ==
    /\ \E user_id \in DOMAIN active_contexts :
           /\ agent_contexts' =
                  [agent_contexts EXCEPT ![active_contexts[user_id]] =
                      add_action(@, "infer_skills", ToolResult(TRUE, FALSE))]
           /\ registry_call' = [op |-> "add_action", user_id |-> user_id, profile |-> {},
                                returned |-> NoContext]
    /\ UNCHANGED active_contexts
    /\ RegistryUnchanged

InitRegistry == InitSession({{}})
NextRegistry == GetOrCreateContext \/ GetContext \/ ClearContext \/ RecordAction
SpecRegistry == InitRegistry /\ [][NextRegistry]_vars

\* ---------------------------------------------- app.py, one chat session
\* The handlers of app.py on one session's context. A button carries the empty
\* payload that send_response_with_actions gives it; response is what the
\* handler showed last.
Shown(kind, buttons) == [NoResponse EXCEPT !.kind = kind, !.action_buttons = buttons]

\* app.on_message: the turn of MyCareerAgent.process_user_input
on_message == ProcessUserInput(DetectedIntents, {"ok"})

\* app.execute_tool_action(tool_name, params)
AppExecuteToolAction(tool_name, params) ==
    IF tool_name = "get_matches" /\ ~can_show_matches(context)
    THEN /\ response' = Shown("blocked", <<"profile_analyzer", "infer_skills", "update_profile">>)
         /\ UNCHANGED <<active_contexts, user_session, agent_contexts, registry_call, analysis>>
         /\ UNCHANGED <<default_ranking, _ranker_instance, r_args, r_result, r_prev, r_calls,
                        r_mode, fallback_turn, context>>
    ELSE LET result == execute_tool(tool_name, context.profile, params)
             recorded == add_action(context, tool_name, result)
             ctx == IF tool_name = "profile_analyzer"
                    THEN update_profile_analysis(recorded, result)
                    ELSE recorded
         IN  \E reply \in {_generate_tool_result_response(tool_name, result, ctx, "ok",
                                                           default_ranking)} :
                 /\ tool_name = "get_matches" => Len(context.match_history) < MaxMatches
                 /\ context' = ctx
                 /\ response' = [Returned(reply, None, NoIntent, tool_name, result.success)
                                    EXCEPT !.next_actions =
                                        IF reply.response.error THEN <<>>
                                        ELSE result.nextActions,
                                           !.tool_average =
                                        IF result.has_average
                                        THEN <<result.averageScore>> ELSE <<>>]
                 /\ default_ranking' = reply.default_ranking
                 /\ UNCHANGED <<active_contexts, user_session, agent_contexts, registry_call, analysis>>
                 /\ UNCHANGED <<_ranker_instance, r_args, r_result, r_prev, r_calls, r_mode,
                                fallback_turn>>

\* The action callbacks of the six buttons
click_profile_analyzer == AppExecuteToolAction("profile_analyzer", "default")
click_get_matches == AppExecuteToolAction("get_matches", None)
click_infer_skills == AppExecuteToolAction("infer_skills", "default")
click_update_profile == AppExecuteToolAction("update_profile", "skills")
click_draft_email == AppExecuteToolAction("draft_email", "default")

\* on_ask_jd_qa without job id and question: the user is asked for them
click_ask_jd_qa ==
    /\ context' = [context EXCEPT !.pending_clarification = TRUE]
    /\ response' = Shown("ask", <<>>)
    /\ UNCHANGED <<active_contexts, user_session, agent_contexts, registry_call, analysis>>
    /\ UNCHANGED <<default_ranking, _ranker_instance, r_args, r_result, r_prev, r_calls,
                   r_mode, fallback_turn>>

InitApp == InitSession(Profiles)
NextApp ==
    \/ on_message
    \/ click_profile_analyzer
    \/ click_get_matches
    \/ click_infer_skills
    \/ click_update_profile
    \/ click_ask_jd_qa
    \/ click_draft_email
SpecApp == InitApp /\ [][NextApp]_vars

\* ------------------------------------------------- match history harness
\* Match sessions of any average on a session whose profile has been analysed
\* with a completion score of at least 50: each is recorded by add_action and
\* followed by the ranking of _generate_tool_result_response.
MatchAverages == {300, 550, 650, 1000}

AnalysedProfiles ==
    {{"experience", "qualification", "preferences", "languages"},
     {"experience", "qualification", "skills", "preferences", "languages"}}

InitHistory ==
    /\ default_ranking = DEFAULT_TOOL_RANKING
    /\ _ranker_instance = "ToolRanker"
    /\ r_args = NoArgs
    /\ r_result = <<>>
    /\ r_prev = <<>>
    /\ r_calls = 0
    /\ r_mode = NoMode
    /\ fallback_turn = NoTurn
    /\ \E profile \in AnalysedProfiles :
           context = update_profile_analysis(AgentContext(profile), profile_analyzer(profile))
    /\ response = NoResponse
    /\ NoSessions

MatchSession ==
    /\ Len(context.match_history) < MaxMatches
    /\ \E avg \in MatchAverages :
           LET result == [ToolResult(TRUE, FALSE) EXCEPT !.has_average = TRUE,
                                                         !.averageScore = avg]
               ctx == add_action(context, "get_matches", result)
               args == RankArgs(None, 0, ctx.profile_completion_score, "get_matches",
                                get_last_match_scores(ctx), ctx.missing_sections)
               call == rank_tools(args, default_ranking)
           IN  /\ context' = ctx
               /\ r_args' = args
               /\ r_result' = call.result
               /\ default_ranking' = call.default_ranking
    /\ UNCHANGED <<active_contexts, user_session, agent_contexts, registry_call, analysis>>
    /\ UNCHANGED <<_ranker_instance, r_prev, r_calls, r_mode, fallback_turn, response>>

NextHistory == MatchSession
SpecHistory == InitHistory /\ [][NextHistory]_vars

\* ------------------------------------------------------ analyzer harness
\* completion_threshold of a call: the default 80, the matches threshold 50,
\* and one above every score
Thresholds == {50, 80, 101}

InitAnalyzer ==
    /\ default_ranking = DEFAULT_TOOL_RANKING
    /\ _ranker_instance = "ToolRanker"
    /\ r_args = NoArgs
    /\ r_result = <<>>
    /\ r_prev = <<>>
    /\ r_calls = 0
    /\ r_mode = NoMode
    /\ fallback_turn = NoTurn
    /\ context = AgentContext({})
    /\ response = NoResponse
    /\ active_contexts = <<>>
    /\ user_session = <<>>
    /\ agent_contexts = <<>>
    /\ registry_call = NoCall
    /\ analysis \in {[called |-> FALSE, core |-> core, completion_threshold |-> threshold,
                       result |-> None] : core \in Cores, threshold \in Thresholds}

\* One call of profile_analyzer on the profile
CallProfileAnalyzer ==
    /\ ~analysis.called
    /\ analysis' = [analysis EXCEPT
                        !.called = TRUE,
                        !.result = AnalyzeProfile(analysis.core, analysis.completion_threshold)]
    /\ UNCHANGED <<default_ranking, _ranker_instance, r_args, r_result, r_prev, r_calls, r_mode,
                   fallback_turn, context, response, active_contexts, user_session,
                   agent_contexts, registry_call>>

NextAnalyzer == CallProfileAnalyzer
SpecAnalyzer == InitAnalyzer /\ [][NextAnalyzer]_vars

\* ------------------------------------------------------------------ claims
IsTriple(buttons) ==
    /\ Len(buttons) = 3
    /\ \A i \in 1..3 : buttons[i] \in Tools
    /\ \A i, j \in 1..3 : i # j => buttons[i] # buttons[j]

\* C1: for every context snapshot whose primary action is null or one of the
\* six identifiers, rank_tools returns exactly 3 pairwise-distinct identifiers
\* of the closed six-member set.
C1_ExactlyThreeDistinct ==
    r_result # <<>> => IsTriple(r_result)

C1_Witness ==
    /\ r_result # <<>>
    /\ r_args.primary_tool = "draft_email"
    /\ r_args.confidence = 750
    /\ r_args.recent_action = "get_matches"
    /\ Len(r_args.last_match_scores) = MaxScores
    /\ r_args.completion_score = 50

\* C2: whenever the primary action is one of the six identifiers and the
\* confidence is at least 0.45, the first element of rank_tools' result is the
\* primary action, whichever ranking rule fired.
C2_PrimaryFirst ==
    (r_result # <<>> /\ r_args.primary_tool \in Tools /\ r_args.confidence >= 450)
        => r_result[1] = r_args.primary_tool

C2_Witness ==
    /\ r_result # <<>>
    /\ r_args.primary_tool = "draft_email"
    /\ r_args.confidence = 450
    /\ r_args.completion_score < 50
    /\ r_result[1] = "draft_email"

\* C3: the response mode is selected from the confidence alone: fallback iff
\* confidence < 0.45, clarify iff 0.45 <= confidence < 0.75, recommend iff
\* confidence >= 0.75; should_use_fallback and should_show_clarifying_questions
\* induce the same partition.
C3_ModePartition ==
    r_mode.mode # None =>
        /\ r_mode.mode \in {"fallback", "clarify", "recommend"}
        /\ (r_mode.mode = "fallback") <=> (r_mode.confidence < 450)
        /\ (r_mode.mode = "clarify") <=> (450 <= r_mode.confidence /\ r_mode.confidence < 750)
        /\ (r_mode.mode = "recommend") <=> (r_mode.confidence >= 750)
        /\ r_mode.use_fallback <=> (r_mode.mode = "fallback")
        /\ r_mode.show_clarifying <=> (r_mode.mode = "clarify")

C3_Witness ==
    /\ r_mode.confidence = 450
    /\ r_mode.mode = "clarify"
    /\ r_mode.show_clarifying

ImprovementTriple == <<"profile_analyzer", "infer_skills", "update_profile">>

RecommendTurn == response.kind = "turn" /\ response.mode = "recommend"

\* C4: a Recommend turn whose primary action is get_matches, taken while the
\* session's completion score is below 50, carries exactly the buttons
\* profile_analyzer, infer_skills, update_profile, at every confidence of at
\* least 0.75 and every score 0..49.
C4_MatchesBlockedBelow50 ==
    (RecommendTurn /\ response.intent = "get_matches"
                   /\ context.profile_completion_score < 50)
        => /\ response.action_buttons = ImprovementTriple
           /\ response.suggestion_type = "profile_improvement"

C4_Witness ==
    /\ RecommendTurn
    /\ response.intent = "get_matches"
    /\ response.intent_confidence = 750
    /\ context.profile_completion_score = 49
    /\ context.missing_sections = {}
    /\ response.action_buttons = ImprovementTriple

LastTwoLow ==
    LET n == Len(context.match_history)
    IN  n >= 2 /\ context.match_history[n] < 600 /\ context.match_history[n - 1] < 600

LastHigh ==
    LET n == Len(context.match_history)
    IN  n >= 1 /\ context.match_history[n] >= 600

\* C5: a Recommend turn carries the fixed triple whenever the last two
\* recorded match sessions both averaged below 60, whatever the primary action;
\* once a later match session averages 60 or more, a Recommend turn is not
\* overridden on account of the match history (only a get_matches intent on a
\* score below 50 still is).
C5_LowMatchOverride ==
    RecommendTurn =>
        /\ LastTwoLow => /\ response.action_buttons = ImprovementTriple
                         /\ response.suggestion_type = "profile_improvement"
        /\ (LastHigh /\ ~(response.intent = "get_matches"
                          /\ context.profile_completion_score < 50))
               => /\ response.suggestion_type = None
                  /\ response.action_buttons[1] = response.intent

C5_Witness ==
    /\ RecommendTurn
    /\ LastTwoLow
    /\ response.intent = "draft_email"
    /\ context.profile_completion_score = 100
    /\ response.action_buttons = ImprovementTriple

C5_WitnessRecovered ==
    /\ RecommendTurn
    /\ Len(context.match_history) = 3
    /\ context.match_history[1] < 600
    /\ context.match_history[2] < 600
    /\ context.match_history[3] >= 600
    /\ response.suggestion_type = None

\* C6: across any sequence of calls on the singleton ranker, a call repeated
\* with identical arguments returns the identical list, and no call changes the
\* canonical default ranking.
C6_Deterministic ==
    /\ default_ranking = DEFAULT_TOOL_RANKING
    /\ r_prev # <<>> => r_result = r_prev

C6_Witness ==
    /\ r_calls = MaxCalls
    /\ r_prev # <<>>
    /\ r_args.primary_tool = "draft_email"
    /\ r_args.confidence = 450
    /\ r_args.completion_score = 100
    /\ r_result = <<"draft_email", "get_matches", "profile_analyzer">>

FailedTool == response.kind = "tool" /\ ~response.tool_success

\* What _generate_error_response shows: the ranking with no primary action and
\* nothing but the completion score
NeutralRanking ==
    rank_tools(RankArgs(None, 0, context.profile_completion_score, None, <<>>, {}),
               default_ranking).result

\* C7: whenever a tool execution returns success = false, a failure that
\* carries a message but no error field included, the response is the error
\* response: it is flagged as an error, shows no formatted result, and its
\* buttons are the ranking computed with no primary action.
C7_FailureTakesErrorPath ==
    FailedTool =>
        /\ response.error
        /\ ~response.formatted_result
        /\ response.action_buttons = NeutralRanking

\* C8: whichever LLM calls raise, process_user_input returns a response: a
\* failed classification call is answered by the keyword classifier, a failed
\* text call by the canned text, and the mode and the buttons are those that
\* follow from the resulting classification.
C8_LLMFailuresContained ==
    response.kind = "turn" =>
        LET intent_result == [primary_tool |-> response.intent,
                              confidence |-> response.intent_confidence]
            expected == TurnReply(intent_result, context, "ok", default_ranking).response
        IN  /\ ~response.raised
            /\ response.response_text \in {"llm", "canned"}
            /\ response.classifier \in {"llm", "keyword"}
            /\ response.classifier = "keyword" =>
                   \E user_input \in UserInputs :
                       intent_result = _fallback_intent_detection(user_input)
            /\ response.mode = ResponseMode(response.intent_confidence)
            /\ response.action_buttons = expected.action_buttons
            /\ response.suggestion_type = expected.suggestion_type

C8_Witness ==
    /\ response.kind = "turn"
    /\ response.classifier = "keyword"
    /\ response.response_text = "canned"
    /\ response.mode = "clarify"
    /\ response.intent = "infer_skills"
    /\ context.last_tool_executed = "get_matches"

\* The categories of the keyword classifier in the order they are tried, each
\* with its words and its confidence
FallbackCategories ==
    <<[tool |-> "get_matches", confidence |-> 650,
       words |-> {"job", "match", "find", "search", "opportunity"}],
      [tool |-> "profile_analyzer", confidence |-> 650,
       words |-> {"profile", "analyze", "check", "complete"}],
      [tool |-> "infer_skills", confidence |-> 600,
       words |-> {"skill", "suggest", "recommend"}],
      [tool |-> "update_profile", confidence |-> 600,
       words |-> {"update", "change", "edit"}],
      [tool |-> "draft_email", confidence |-> 600,
       words |-> {"email", "message", "draft", "write"}],
      [tool |-> "ask_jd_qa", confidence |-> 550,
       words |-> {"ask", "question", "tell me about"}]>>

Matched(i) == FallbackCategories[i].words \cap fallback_turn.user_input # {}

\* C9: the keyword classifier answers with the first category, in the order
\* get_matches, profile_analyzer, infer_skills, update_profile, draft_email,
\* ask_jd_qa, of which a word occurs in the text, at that category's
\* confidence (0.65, 0.65, 0.60, 0.60, 0.60, 0.55), and with no action at 0.0
\* when none occurs; so the turn is Clarify when a category matched, Fallback
\* when none did, and never Recommend.
C9_KeywordFallback ==
    fallback_turn.mode # None =>
        /\ \A i \in DOMAIN FallbackCategories :
               (Matched(i) /\ \A j \in 1..(i - 1) : ~Matched(j))
                   => /\ fallback_turn.primary_tool = FallbackCategories[i].tool
                      /\ fallback_turn.confidence = FallbackCategories[i].confidence
                      /\ fallback_turn.mode = "clarify"
        /\ (\A i \in DOMAIN FallbackCategories : ~Matched(i))
               => /\ fallback_turn.primary_tool = None
                  /\ fallback_turn.confidence = 0
                  /\ fallback_turn.mode = "fallback"
        /\ fallback_turn.mode # "recommend"

C9_Witness ==
    /\ fallback_turn.user_input = {"ask", "email"}
    /\ fallback_turn.primary_tool = "draft_email"
    /\ fallback_turn.confidence = 600
    /\ fallback_turn.mode = "clarify"

\* C10: every response the agent returns, whether to a turn (fallback,
\* clarify, recommend, profile improvement) or to a tool execution (result or
\* error), carries exactly 3 buttons naming 3 distinct identifiers of the six.
C10_AlwaysThreeButtons ==
    response.kind # None => IsTriple(response.action_buttons)

C10_Witness ==
    /\ response.kind = "tool"
    /\ response.error
    /\ response.tool_name = "get_matches"
    /\ context.consecutive_low_matches = 2
    /\ IsTriple(response.action_buttons)

\* The safe defaults of a context snapshot
SafeDefaults ==
    [primary_tool |-> None, confidence |-> 0, completion_score |-> 100,
     recent_action |-> None, last_match_scores |-> <<>>, missing_sections |-> {}]

\* C11: a rank_tools call that leaves any of its fields out returns what the
\* call with the safe defaults (score 100, nothing missing, no recent action,
\* no match scores, no primary action, confidence 0) in their place returns;
\* the call with no field at all returns get_matches, profile_analyzer,
\* infer_skills.
C11_TotalOverPartialInput ==
    r_result # <<>> =>
        LET full == [f \in RankFields |->
                        IF f \in DOMAIN r_args THEN r_args[f] ELSE SafeDefaults[f]]
        IN  /\ r_result = rank_tools(full, DEFAULT_TOOL_RANKING).result
            /\ IsTriple(r_result)
            /\ DOMAIN r_args = {}
                   => r_result = <<"get_matches", "profile_analyzer", "infer_skills">>

C11_Witness ==
    /\ DOMAIN r_args = {"recent_action", "confidence"}
    /\ r_args["recent_action"] = "get_matches"
    /\ r_result = <<"ask_jd_qa", "draft_email", "get_matches">>

\* C12: every action identifier proposed as a next action is one of the six
\* that execute_tool dispatches: each button of a response (from rank_tools'
\* result or the profile-improvement triple) and the tool of each entry of
\* profile_analyzer's nextActions.
C12_ProposedActionsDispatchable ==
    /\ \A i \in DOMAIN response.action_buttons : response.action_buttons[i] \in Tools
    /\ \A i \in DOMAIN response.next_actions :
           /\ response.next_actions[i] \in Tools
           /\ execute_tool(response.next_actions[i], context.profile, "default").success

\* C13: no two distinct chat sessions hold the same session context object, so
\* that no session's context is returned to, or mutated by, another session;
\* this includes sessions of the same user and of users who are not logged in
C13_NoSharedContext ==
    \A s, t \in Sessions :
        (s # t /\ user_session[s].agent_context # NoContext)
            => user_session[s].agent_context # user_session[t].agent_context

\* The six actions in the order a rule's list has them when it starts with head
\* and goes on with the canonical default order
RuleList(head) == head \o SelectSeq(DEFAULT_TOOL_RANKING, LAMBDA t : t \notin Range(head))

\* The list of the critical-profile rule
CriticalList(missing) ==
    RuleList(IF missing # {} /\ "skills" \notin missing
             THEN <<"profile_analyzer", "update_profile", "infer_skills">>
             ELSE <<"profile_analyzer", "infer_skills", "update_profile">>)

\* The list of the just-showed-matches rule
PostMatchList == RuleList(<<"ask_jd_qa", "draft_email", "get_matches">>)

\* The first three of list once a primary action of reasonable confidence is moved first
Expected(list, a) ==
    IF a.primary_tool # None /\ a.confidence >= 450
    THEN SubSeq(<<a.primary_tool>> \o SelectSeq(list, LAMBDA t : t # a.primary_tool), 1, 3)
    ELSE SubSeq(list, 1, 3)

\* C14: the rules are tried in a fixed order and the first that holds supplies
\* the list. Below 50 the critical-profile list is used whatever the match
\* scores, the recent action and the primary; right after get_matches, with a
\* score of at least 50 and no low match scores, a strong primary other than
\* get_matches is followed by the first two of the post-match list, not by its
\* follow-up pair.
C14_FirstRuleWins ==
    r_result # <<>> =>
        /\ r_args.completion_score < 50
               => r_result = Expected(CriticalList(r_args.missing_sections), r_args)
        /\ ( /\ r_args.completion_score >= 50
             /\ ~_has_low_match_scores(r_args.last_match_scores)
             /\ r_args.recent_action = "get_matches"
             /\ r_args.primary_tool \notin {None, "get_matches"}
             /\ r_args.confidence >= 750 )
               => r_result = SubSeq(<<r_args.primary_tool>>
                                    \o SelectSeq(<<"ask_jd_qa", "draft_email", "get_matches">>,
                                                 LAMBDA t : t # r_args.primary_tool), 1, 3)

C14_Witness ==
    /\ r_result = <<"profile_analyzer", "ask_jd_qa", "draft_email">>
    /\ r_args.recent_action = "get_matches"
    /\ r_args.primary_tool = "profile_analyzer"
    /\ r_args.confidence >= 750
    /\ r_args.completion_score >= 50
    /\ r_args.last_match_scores = <<650, 650>>

\* C15: with a completion score below 50 and no primary action of confidence
\* 0.45 or more, the result is profile_analyzer, then infer_skills and
\* update_profile: infer_skills first exactly when "skills" is among the missing
\* sections, update_profile first otherwise, an empty set of missing sections
\* included
C15_CriticalProfileOrder ==
    ( /\ r_result # <<>>
      /\ r_args.completion_score < 50
      /\ (r_args.primary_tool = None \/ r_args.confidence < 450) )
        => r_result = IF "skills" \in r_args.missing_sections
                      THEN <<"profile_analyzer", "infer_skills", "update_profile">>
                      ELSE <<"profile_analyzer", "update_profile", "infer_skills">>

\* C16: the low-match rule never fires on an empty or one-entry list of match
\* scores, whatever the entry: the result is that of the call without scores.
\* With a completion score of at least 50, no primary action of confidence 0.45
\* or more and two or more entries all below 60, the result is profile_analyzer,
\* infer_skills, then update_profile if "skills" is missing and get_matches
\* otherwise, whatever the recent action.
C16_LowMatchRule ==
    r_result # <<>> =>
        /\ Len(r_args.last_match_scores) <= 1
               => /\ ~_has_low_match_scores(r_args.last_match_scores)
                  /\ r_result = rank_tools([r_args EXCEPT !.last_match_scores = <<>>],
                                           default_ranking).result
        /\ ( /\ r_args.completion_score >= 50
             /\ (r_args.primary_tool = None \/ r_args.confidence < 450)
             /\ Len(r_args.last_match_scores) >= 2
             /\ \A i \in DOMAIN r_args.last_match_scores : r_args.last_match_scores[i] < 600 )
               => r_result = IF "skills" \in r_args.missing_sections
                             THEN <<"profile_analyzer", "infer_skills", "update_profile">>
                             ELSE <<"profile_analyzer", "infer_skills", "get_matches">>

C16_Witness ==
    /\ r_result = <<"profile_analyzer", "infer_skills", "get_matches">>
    /\ r_args.last_match_scores = <<550, 550>>
    /\ r_args.recent_action = "get_matches"
    /\ r_args.completion_score >= 50
    /\ r_args.primary_tool = None

\* C17: low-match detection looks at the last two match entries in both places.
\* For a history of two or more entries the ranking is that of the history cut
\* to its last two entries, and whenever the context counts two consecutive low
\* match sessions the ranker's low-match rule holds for the same history.
C17_WindowOfTwo ==
    (r_result # <<>> /\ Len(context.match_history) >= 2) =>
        /\ r_result = rank_tools([r_args EXCEPT !.last_match_scores = LastTwo(@)],
                                 default_ranking).result
        /\ should_suggest_profile_improvement(context)
               => _has_low_match_scores(r_args.last_match_scores)

\* C18: with get_matches as the recent action, a completion score of at least
\* 50, no low match scores and no primary action of confidence 0.45 or more, the
\* result is exactly ask_jd_qa, draft_email, get_matches, whatever the missing
\* sections
C18_PostMatchTriple ==
    ( /\ r_result # <<>>
      /\ r_args.recent_action = "get_matches"
      /\ r_args.completion_score >= 50
      /\ ~_has_low_match_scores(r_args.last_match_scores)
      /\ (r_args.primary_tool = None \/ r_args.confidence < 450) )
        => r_result = <<"ask_jd_qa", "draft_email", "get_matches">>

C18_Witness ==
    /\ r_result = <<"ask_jd_qa", "draft_email", "get_matches">>
    /\ r_args.recent_action = "get_matches"
    /\ r_args.completion_score = 50
    /\ r_args.last_match_scores = <<550, 650>>
    /\ r_args.primary_tool = "profile_analyzer"
    /\ r_args.confidence = 449
    /\ r_args.missing_sections = {"skills", "experience"}

\* The same in a session: the buttons of the response to a successful
\* get_matches, on a completion score of at least 50 and a match history that
\* does not fire the low-match rule
ButtonsAfterMatches ==
    ( /\ response.tool_name = "get_matches"
      /\ response.tool_success
      /\ context.profile_completion_score >= 50
      /\ ~_has_low_match_scores(context.match_history) )
        => response.action_buttons = <<"ask_jd_qa", "draft_email", "get_matches">>

ButtonsAfterMatches_Witness ==
    /\ response.tool_name = "get_matches"
    /\ response.tool_success
    /\ context.profile_completion_score \in 50..79
    /\ context.missing_sections # {}
    /\ response.action_buttons = <<"ask_jd_qa", "draft_email", "get_matches">>

\* The follow-up pair of a primary action
FollowUp(primary_tool, missing) ==
    CASE primary_tool = "get_matches" -> <<"ask_jd_qa", "draft_email">>
      [] primary_tool = "profile_analyzer" ->
           IF "skills" \in missing THEN <<"infer_skills", "update_profile">>
           ELSE <<"update_profile", "get_matches">>
      [] primary_tool = "infer_skills" -> <<"update_profile", "profile_analyzer">>
      [] primary_tool = "update_profile" -> <<"profile_analyzer", "get_matches">>
      [] primary_tool = "ask_jd_qa" -> <<"draft_email", "get_matches">>
      [] primary_tool = "draft_email" -> <<"ask_jd_qa", "get_matches">>

\* C19: with a completion score of at least 50, no low match scores, a recent
\* action other than get_matches and a primary action of confidence 0.75 or
\* more, the result is the primary action followed by its follow-up pair
C19_StrongIntentFollowUp ==
    ( /\ r_result # <<>>
      /\ r_args.completion_score >= 50
      /\ ~_has_low_match_scores(r_args.last_match_scores)
      /\ r_args.recent_action # "get_matches"
      /\ r_args.primary_tool # None
      /\ r_args.confidence >= 750 )
        => r_result = <<r_args.primary_tool>>
                      \o FollowUp(r_args.primary_tool, r_args.missing_sections)

C19_Witness ==
    /\ r_result = <<"profile_analyzer", "infer_skills", "update_profile">>
    /\ r_args.primary_tool = "profile_analyzer"
    /\ r_args.confidence = 750
    /\ r_args.completion_score = 50
    /\ r_args.recent_action = "profile_analyzer"
    /\ r_args.last_match_scores = <<550>>
    /\ "skills" \in r_args.missing_sections

\* C20: post-processing changes the position of the primary action only. With
\* a primary action of confidence 0.45 or more the result is the primary action
\* followed by the first two other actions of the fired rule's list, in that
\* list's order; without one it is the first three elements of that list.
C20_OnlyPrimaryMoves ==
    r_result # <<>> =>
        LET list == RankedTools(r_args, default_ranking).list
            others == SelectSeq(list, LAMBDA t : t # r_args.primary_tool)
        IN  IF r_args.primary_tool # None /\ r_args.confidence >= 450
            THEN r_result = <<r_args.primary_tool, others[1], others[2]>>
            ELSE r_result = <<list[1], list[2], list[3]>>

C20_Witness ==
    /\ r_result = <<"draft_email", "profile_analyzer", "get_matches">>
    /\ r_args.primary_tool = "draft_email"
    /\ r_args.confidence = 450
    /\ r_args.completion_score = 79
    /\ r_args.recent_action = None
    /\ r_args.missing_sections = {}

\* C21: a turn classified with confidence below 0.45 attaches no primary
\* action: the response reports no mapped tool and confidence 0, and its buttons
\* are the ranking of the session's completion score and missing sections
\* alone, the same whatever the classifier's candidate action and confidence
C21_FallbackHasNoPrimary ==
    (response.kind = "turn" /\ response.intent_confidence < 450) =>
        /\ response.mode = "fallback"
        /\ response.mapped_tool = None
        /\ response.confidence = 0
        /\ response.action_buttons =
               rank_tools(RankArgs(None, 0, context.profile_completion_score, None, <<>>,
                                   context.missing_sections), default_ranking).result

C21_Witness ==
    /\ response.kind = "turn"
    /\ response.mode = "fallback"
    /\ response.intent = "draft_email"
    /\ response.intent_confidence = 449
    /\ context.profile_completion_score = 100
    /\ response.mapped_tool = None
    /\ response.action_buttons = <<"get_matches", "profile_analyzer", "infer_skills">>

\* C22: a Clarify turn keeps its primary action (reported as the mapped tool
\* and shown as the first button) and sets the pending-clarification flag, every
\* Recommend turn clears it, and nothing else changes it: the flag is set
\* exactly when the latest Clarify-or-Recommend turn was a Clarify turn
C22_PendingFollowsClarify ==
    /\ []( /\ (response.kind = "turn" /\ response.mode = "clarify")
                  => ( /\ context.pending_clarification
                       /\ response.mapped_tool = response.intent
                       /\ response.action_buttons[1] = response.intent )
           /\ (response.kind = "turn" /\ response.mode = "recommend")
                  => ~context.pending_clarification )
    /\ [][(context'.pending_clarification # context.pending_clarification)
              => (response'.kind = "turn" /\ response'.mode \in {"clarify", "recommend"})]_vars

\* C23: the lifecycle of the session registry. get_or_create_context makes a
\* context on the first call for a user id only (a fresh one, also after an
\* eviction) and afterwards returns that same context with its state intact,
\* replacing its profile only if the stored one was empty; get_context never
\* makes a context; clear_context(u) removes u's entry only and does nothing
\* when u has none.
C23_RegistryLifecycle ==
    [][LET call == registry_call'
           u == call.user_id
           known == u \in DOMAIN active_contexts
           others == \A v \in DOMAIN active_contexts \ {u} :
                         v \in DOMAIN active_contexts' /\ active_contexts'[v] = active_contexts[v]
       IN  /\ call.op = "get_or_create_context" =>
                 /\ DOMAIN active_contexts' = DOMAIN active_contexts \cup {u}
                 /\ active_contexts'[u] = call.returned
                 /\ others
                 /\ IF known
                    THEN /\ call.returned = active_contexts[u]
                         /\ Len(agent_contexts') = Len(agent_contexts)
                         /\ \A i \in DOMAIN agent_contexts :
                                agent_contexts'[i] =
                                    IF /\ i = call.returned
                                       /\ agent_contexts[i].profile = {}
                                       /\ call.profile # {}
                                    THEN [agent_contexts[i] EXCEPT !.profile = call.profile]
                                    ELSE agent_contexts[i]
                    ELSE /\ call.returned \notin DOMAIN agent_contexts
                         /\ agent_contexts' = Append(agent_contexts, AgentContext(call.profile))
                         /\ call.returned = Len(agent_contexts')
           /\ call.op = "get_context" =>
                 /\ active_contexts' = active_contexts
                 /\ agent_contexts' = agent_contexts
                 /\ call.returned = IF known THEN active_contexts[u] ELSE NoContext
           /\ call.op = "clear_context" =>
                 /\ DOMAIN active_contexts' = DOMAIN active_contexts \ {u}
                 /\ others
                 /\ agent_contexts' = agent_contexts]_vars

\* After an eviction the user's next context is a fresh one, while the evicted
\* one had recorded an action
C23_Witness ==
    /\ registry_call.op = "get_or_create_context"
    /\ registry_call.user_id = "admin"
    /\ registry_call.returned = 2
    /\ DOMAIN active_contexts = {"admin"}
    /\ Len(agent_contexts) = 2
    /\ agent_contexts[1].last_tool_executed = "infer_skills"
    /\ agent_contexts[2] = AgentContext(registry_call.profile)

\* C24: the match score history is append-only and holds, in order, the average
\* score of every get_matches execution recorded (0 for a result without one);
\* the consecutive-low-match counter is 2 when at least two match sessions are
\* recorded and the last two both averaged below 60, and 0 otherwise; recording
\* another tool, or a turn, leaves history and counter as they are
C24_MatchHistory ==
    /\ [](context.consecutive_low_matches = IF LastTwoLow THEN 2 ELSE 0)
    /\ [][IF response'.kind = "tool" /\ response'.tool_name = "get_matches"
          THEN context'.match_history =
                   Append(context.match_history,
                          IF response'.tool_average = <<>> THEN 0
                          ELSE response'.tool_average[1])
          ELSE /\ context'.match_history = context.match_history
               /\ context'.consecutive_low_matches = context.consecutive_low_matches]_vars

C24_Witness ==
    /\ context.match_history = <<850, 0, 0>>
    /\ context.consecutive_low_matches = 2
    /\ context.last_tool_executed = "infer_skills"
    /\ response.tool_name = "infer_skills"

\* C25: a tool execution whose result has success false leaves the completion
\* score, the missing sections, the match score history and the
\* consecutive-low-match counter as they were
C25_FailureKeepsState ==
    [][(response'.kind = "tool" /\ ~response'.tool_success) =>
           /\ context'.profile_completion_score = context.profile_completion_score
           /\ context'.missing_sections = context.missing_sections
           /\ context'.match_history = context.match_history
           /\ context'.consecutive_low_matches = context.consecutive_low_matches]_vars

\* C26: through the chat application get_matches runs only on a completion
\* score of at least 50. Below it the get_matches button runs no tool, leaves
\* the session context as it is and offers profile_analyzer, infer_skills,
\* update_profile; every entry of the match score history is recorded on a
\* score of at least 50.
C26_MatchesOnlyFromFifty ==
    [][/\ context.profile_completion_score < 50 => response'.tool_name # "get_matches"
       /\ response'.kind = "blocked" =>
              /\ context.profile_completion_score < 50
              /\ context' = context
              /\ response'.action_buttons = <<"profile_analyzer", "infer_skills", "update_profile">>
       /\ context'.match_history # context.match_history =>
              /\ context.profile_completion_score >= 50
              /\ context'.profile_completion_score >= 50]_vars

C26_Witness ==
    /\ response.kind = "blocked"
    /\ context.profile_completion_score = 45
    /\ context.last_tool_executed = "profile_analyzer"
    /\ context.match_history = <<>>


FallbackTurn == response.kind = "turn" /\ response.mode = "fallback"

ErrorResponse == response.kind = "tool" /\ response.error

\* The parts of C27 that do not depend on the wording of the Fallback buttons:
\* the first state of a session has score 0 and no missing sections, and below
\* 50 get_matches is not allowed, a Recommend turn for it is overridden and an
\* error response shows the profile-improvement triple
BelowFiftyCommon ==
    /\ response.kind = None =>
           /\ context.profile_completion_score = 0
           /\ context.missing_sections = {}
    /\ context.profile_completion_score < 50 =>
           /\ ~can_show_matches(context)
           /\ (RecommendTurn /\ response.intent = "get_matches") =>
                  /\ response.action_buttons = ImprovementTriple
                  /\ response.suggestion_type = "profile_improvement"
           /\ ErrorResponse => response.action_buttons = ImprovementTriple

\* C27: a freshly created session context has completion score 0 and no
\* missing sections, and as long as the recorded score is below 50 get_matches
\* is not allowed, a Recommend turn for get_matches is overridden to the
\* profile-improvement triple, and Fallback and error responses show
\* profile_analyzer, infer_skills, update_profile in that order.
C27_BelowFiftyShowsTriple ==
    /\ BelowFiftyCommon
    /\ (context.profile_completion_score < 50 /\ FallbackTurn) =>
           response.action_buttons = ImprovementTriple

\* C27 as the code has it: below 50 a Fallback turn shows the first three of
\* the critical-profile list of the recorded missing sections, which puts
\* update_profile before infer_skills once an analysis recorded missing
\* sections without skills among them; the rest is as stated.
C27_BelowFiftyShowsCriticalList ==
    /\ BelowFiftyCommon
    /\ (context.profile_completion_score < 50 /\ FallbackTurn) =>
           response.action_buttons = SubSeq(CriticalList(context.missing_sections), 1, 3)

C27_Witness ==
    /\ FallbackTurn
    /\ context.profile_completion_score = 45
    /\ context.missing_sections = {"experience", "preferences", "languages"}
    /\ response.action_buttons = <<"profile_analyzer", "update_profile", "infer_skills">>

\* An error response shown while missing sections without skills are recorded
C27_ErrorWitness ==
    /\ ErrorResponse
    /\ context.profile_completion_score = 45
    /\ context.missing_sections = {"experience", "preferences", "languages"}
    /\ response.action_buttons = ImprovementTriple


StatedWeight ==
    [experience |-> 30, qualification |-> 20, skills |-> 25, preferences |-> 15,
     languages |-> 10]

RECURSIVE SumStated(_)
SumStated(sections) ==
    IF sections = <<>> THEN 0 ELSE StatedWeight[Head(sections)] + SumStated(Tail(sections))

\* C29: for every profile, completionScore is an integer in 0..100 equal to 100
\* minus the summed weights (experience 30, qualification 20, skills 25,
\* preferences 15, languages 10) of exactly the sections listed in
\* missingSections; so it is 100 exactly when missingSections is empty; and
\* below the completion threshold nextActions has one entry per missing
\* section, in section order, with priorities 1..n.
C29_ScoreIsHundredMinusMissing ==
    analysis.called =>
        LET result == analysis.result
            missing == result.missingSections
        IN  /\ result.completionScore \in 0..100
            /\ missing = SelectSeq(Sections, LAMBDA section : section \in Range(missing))
            /\ result.completionScore = 100 - SumStated(missing)
            /\ (result.completionScore = 100) <=> (missing = <<>>)
            /\ result.completionScore < analysis.completion_threshold =>
                   /\ Len(result.nextActions) = Len(missing)
                   /\ \A i \in DOMAIN missing :
                          /\ result.nextActions[i].section = missing[i]
                          /\ result.nextActions[i].priority = i

\* A profile with one of the two preference keys and an empty skills section:
\* scored 60, with skills and preferences missing
C29_Witness ==
    /\ analysis.called
    /\ analysis.core.careerAspirationPreference = "data"
    /\ analysis.core.careerLocationPreference = "absent"
    /\ analysis.completion_threshold = 80
    /\ analysis.result.completionScore = 60
    /\ analysis.result.missingSections = <<"skills", "preferences">>
    /\ Len(analysis.result.nextActions) = 2
    /\ analysis.result.nextActions[2].priority = 2

\* The sessions' profile_analyzer is the analyzer at the default threshold on
\* the sections that hold data
AnalyzerAgreesWithSessions ==
    analysis.called =>
        LET result == analysis.result
            short == profile_analyzer(SectionsWithData(analysis.core))
        IN  /\ result.completionScore = short.completionScore
            /\ Range(result.missingSections) = short.missingSections
            /\ analysis.completion_threshold = 80 =>
                   short.nextActions = [i \in DOMAIN result.nextActions |->
                                           result.nextActions[i].tool]


\* The keywords of action t that occur in a reply, themselves or inside a
\* longer keyword of the reply
Hits(reply, t) ==
    Cardinality({i \in DOMAIN tool_keywords[t] :
                    \/ tool_keywords[t][i] \in reply
                    \/ \E w \in reply : tool_keywords[t][i] \in Substrings(w)})

\* k: the highest keyword-hit count of any action
TopHits(reply) ==
    CHOOSE k \in 0..7 :
        /\ \E t \in Tools : Hits(reply, t) = k
        /\ \A t \in Tools : Hits(reply, t) <= k

\* The earliest action, in the stated order, with k hits
EarliestTop(reply) ==
    LET order == <<"get_matches", "profile_analyzer", "infer_skills", "update_profile",
                   "ask_jd_qa", "draft_email">>
        first == CHOOSE i \in 1..6 :
                     /\ Hits(reply, order[i]) = TopHits(reply)
                     /\ \A j \in 1..(i - 1) : Hits(reply, order[j]) < TopHits(reply)
    IN  order[first]

\* C30: a classification parsed from an LLM reply has an action of the closed
\* set, the earliest in the stated order among those with the highest
\* keyword-hit count k, and the confidence min(0.95, 0.40 + 0.15 k), which lies
\* in 0.40..0.95; k = 0 gives a Fallback turn, k = 1 or 2 a Clarify turn and
\* k >= 3 a Recommend turn.
C30_ParsedConfidence ==
    fallback_turn.mode # None =>
        LET reply == fallback_turn.user_input
            k == TopHits(reply)
        IN  /\ fallback_turn.primary_tool \in Tools
            /\ fallback_turn.primary_tool = EarliestTop(reply)
            /\ fallback_turn.confidence = Min(950, 400 + 150 * k)
            /\ fallback_turn.confidence >= 400 /\ fallback_turn.confidence <= 950
            /\ k = 0 => fallback_turn.mode = "fallback"
            /\ k \in {1, 2} => fallback_turn.mode = "clarify"
            /\ k >= 3 => fallback_turn.mode = "recommend"

\* A reply with two keywords of get_matches and two of profile_analyzer: the
\* tie goes to get_matches, at 0.70, a Clarify turn
C30_Witness ==
    /\ fallback_turn.user_input = {"match", "job", "analyze", "profile"}
    /\ fallback_turn.primary_tool = "get_matches"
    /\ fallback_turn.confidence = 700
    /\ fallback_turn.mode = "clarify"

\* A reply with four keywords of one action: the confidence is capped at 0.95
C30_CapWitness ==
    /\ fallback_turn.user_input = {"email", "message", "write", "draft"}
    /\ fallback_turn.primary_tool = "draft_email"
    /\ fallback_turn.confidence = 950
    /\ fallback_turn.mode = "recommend"

====
